---- MODULE Spec2Model ----
(***************************************************************************)
(* Claim adjudication pipeline of ClaimProcessor (src/processor.py).       *)
(*                                                                         *)
(* Conventions                                                             *)
(*  - money is in whole rupees; every modelled amount, limit and sub-limit *)
(*    is a multiple of 100 and every percentage an integer, so that        *)
(*    amount * pct / 100 is exact and round(x, 2) leaves it unchanged;     *)
(*  - scores (fraud score, confidence, thresholds, weights) are in         *)
(*    thousandths: 1000 stands for 1.0;                                    *)
(*  - dates are day numbers; strptime of a well-formed date is its number; *)
(*  - a Python string is a TLA+ string whose characters are given by Text; *)
(*    lower() and the substring test `in` are computed on the characters.  *)
(***************************************************************************)
EXTENDS Integers, Sequences, FiniteSets, TLC

\* ------------------------------------------------------------------------
\* Bounds of the model
\* ------------------------------------------------------------------------
MaxItems == 2
\* the largest number of documents of one call
MaxDocs == 3

\* ------------------------------------------------------------------------
\* Absent values (Python None / missing key)
\* ------------------------------------------------------------------------
None == "None"
\* a key that is not in the dict at all (a null value is None)
Omitted == "Omitted"
NoDate == 0
Unset == -1

\* ------------------------------------------------------------------------
\* Strings
\* ------------------------------------------------------------------------
Text ==
       "General Consultation" :> <<"G", "e", "n", "e", "r", "a", "l", " ", "C", "o", "n", "s", "u", "l", "t", "a", "t", "i", "o", "n">> @@
       "Doctor Consultation" :> <<"D", "o", "c", "t", "o", "r", " ", "C", "o", "n", "s", "u", "l", "t", "a", "t", "i", "o", "n">> @@
       "Cosmetic Surgery" :> <<"C", "o", "s", "m", "e", "t", "i", "c", " ", "S", "u", "r", "g", "e", "r", "y">> @@
       "Teeth Whitening" :> <<"T", "e", "e", "t", "h", " ", "W", "h", "i", "t", "e", "n", "i", "n", "g">> @@
       "Experimental Therapy" :> <<"E", "x", "p", "e", "r", "i", "m", "e", "n", "t", "a", "l", " ", "T", "h", "e", "r", "a", "p", "y">> @@
       "MRI Scan" :> <<"M", "R", "I", " ", "S", "c", "a", "n">> @@
       "Blood Test" :> <<"B", "l", "o", "o", "d", " ", "T", "e", "s", "t">> @@
       "Generic Paracetamol" :> <<"G", "e", "n", "e", "r", "i", "c", " ", "P", "a", "r", "a", "c", "e", "t", "a", "m", "o", "l">> @@
       "Branded Syrup" :> <<"B", "r", "a", "n", "d", "e", "d", " ", "S", "y", "r", "u", "p">> @@
       "Root Canal" :> <<"R", "o", "o", "t", " ", "C", "a", "n", "a", "l">> @@
       "Eye Exam" :> <<"E", "y", "e", " ", "E", "x", "a", "m">> @@
       "Ayurveda Massage" :> <<"A", "y", "u", "r", "v", "e", "d", "a", " ", "M", "a", "s", "s", "a", "g", "e">> @@
       "Ambulance" :> <<"A", "m", "b", "u", "l", "a", "n", "c", "e">> @@
       "Viral Fever" :> <<"V", "i", "r", "a", "l", " ", "F", "e", "v", "e", "r">> @@
       "Cosmetic Surgery Aftercare" :> <<"C", "o", "s", "m", "e", "t", "i", "c", " ", "S", "u", "r", "g", "e", "r", "y", " ", "A", "f", "t", "e", "r", "c", "a", "r", "e">> @@
       "Jo" :> <<"J", "o">> @@
       "cosmetic surgery" :> <<"c", "o", "s", "m", "e", "t", "i", "c", " ", "s", "u", "r", "g", "e", "r", "y">> @@
       "whitening" :> <<"w", "h", "i", "t", "e", "n", "i", "n", "g">> @@
       "bleaching" :> <<"b", "l", "e", "a", "c", "h", "i", "n", "g">> @@
       "cosmetic" :> <<"c", "o", "s", "m", "e", "t", "i", "c">> @@
       "aesthetic" :> <<"a", "e", "s", "t", "h", "e", "t", "i", "c">> @@
       "beauty" :> <<"b", "e", "a", "u", "t", "y">> @@
       "experimental" :> <<"e", "x", "p", "e", "r", "i", "m", "e", "n", "t", "a", "l">> @@
       "investigational" :> <<"i", "n", "v", "e", "s", "t", "i", "g", "a", "t", "i", "o", "n", "a", "l">> @@
       "trial" :> <<"t", "r", "i", "a", "l">> @@
       "unproven" :> <<"u", "n", "p", "r", "o", "v", "e", "n">> @@
       "mri" :> <<"m", "r", "i">> @@
       "ct" :> <<"c", "t">> @@
       "ct scan" :> <<"c", "t", " ", "s", "c", "a", "n">> @@
       "mri scan" :> <<"m", "r", "i", " ", "s", "c", "a", "n">> @@
       "generic" :> <<"g", "e", "n", "e", "r", "i", "c">> @@
       "blood test" :> <<"b", "l", "o", "o", "d", " ", "t", "e", "s", "t">> @@
       "blood-test" :> <<"b", "l", "o", "o", "d", "-", "t", "e", "s", "t">> @@
       "root canal" :> <<"r", "o", "o", "t", " ", "c", "a", "n", "a", "l">> @@
       "ayurveda" :> <<"a", "y", "u", "r", "v", "e", "d", "a">> @@
       "" :> <<>> @@
       "transport" :> <<"t", "r", "a", "n", "s", "p", "o", "r", "t">> @@
       "Patient Name" :> <<"P", "a", "t", "i", "e", "n", "t", " ", "N", "a", "m", "e">> @@
       "Treatment Date" :> <<"T", "r", "e", "a", "t", "m", "e", "n", "t", " ", "D", "a", "t", "e">> @@
       "Total Amount" :> <<"T", "o", "t", "a", "l", " ", "A", "m", "o", "u", "n", "t">> @@
       "Line Items" :> <<"L", "i", "n", "e", " ", "I", "t", "e", "m", "s">> @@
       "doctor_registration" :> <<"d", "o", "c", "t", "o", "r", "_", "r", "e", "g", "i", "s", "t", "r", "a", "t", "i", "o", "n">> @@
       "hospital_name" :> <<"h", "o", "s", "p", "i", "t", "a", "l", "_", "n", "a", "m", "e">> @@
       "doctor_name" :> <<"d", "o", "c", "t", "o", "r", "_", "n", "a", "m", "e">> @@
       "consultation" :> <<"c", "o", "n", "s", "u", "l", "t", "a", "t", "i", "o", "n">> @@
       "diagnostic" :> <<"d", "i", "a", "g", "n", "o", "s", "t", "i", "c">> @@
       "pharmacy" :> <<"p", "h", "a", "r", "m", "a", "c", "y">> @@
       "dental" :> <<"d", "e", "n", "t", "a", "l">> @@
       "vision" :> <<"v", "i", "s", "i", "o", "n">> @@
       "alternative_medicine" :> <<"a", "l", "t", "e", "r", "n", "a", "t", "i", "v", "e", "_", "m", "e", "d", "i", "c", "i", "n", "e">> @@
       "prescription" :> <<"p", "r", "e", "s", "c", "r", "i", "p", "t", "i", "o", "n">> @@
       "medical_bill" :> <<"m", "e", "d", "i", "c", "a", "l", "_", "b", "i", "l", "l">> @@
       "pharmacy_bill" :> <<"p", "h", "a", "r", "m", "a", "c", "y", "_", "b", "i", "l", "l">> @@
       "lab_results" :> <<"l", "a", "b", "_", "r", "e", "s", "u", "l", "t", "s">> @@
       "Medical-Bill" :> <<"M", "e", "d", "i", "c", "a", "l", "-", "B", "i", "l", "l">> @@
       "KA/12345/2015" :> <<"K", "A", "/", "1", "2", "3", "4", "5", "/", "2", "0", "1", "5">> @@
       "REG-77" :> <<"R", "E", "G", "-", "7", "7">> @@
       "Asha Rao" :> <<"A", "s", "h", "a", " ", "R", "a", "o">> @@
       "Dr. Mehta" :> <<"D", "r", ".", " ", "M", "e", "h", "t", "a">> @@
       "City Clinic" :> <<"C", "i", "t", "y", " ", "C", "l", "i", "n", "i", "c">> @@
       "PA-001" :> <<"P", "A", "-", "0", "0", "1">> @@
       "M1" :> <<"M", "1">> @@
       "MX" :> <<"M", "X">> @@
       "after food" :> <<"a", "f", "t", "e", "r", " ", "f", "o", "o", "d">> @@
       "before food" :> <<"b", "e", "f", "o", "r", "e", " ", "f", "o", "o", "d">> @@
       "at bedtime" :> <<"a", "t", " ", "b", "e", "d", "t", "i", "m", "e">> @@
       "twice daily" :> <<"t", "w", "i", "c", "e", " ", "d", "a", "i", "l", "y">> @@
       "thrice daily" :> <<"t", "h", "r", "i", "c", "e", " ", "d", "a", "i", "l", "y">> @@
       "1-0-1" :> <<"1", "-", "0", "-", "1">> @@
       "0-0-1" :> <<"0", "-", "0", "-", "1">> @@
       "1-0-0" :> <<"1", "-", "0", "-", "0">> @@
       "for 5 days" :> <<"f", "o", "r", " ", "5", " ", "d", "a", "y", "s">> @@
       "for 3 days" :> <<"f", "o", "r", " ", "3", " ", "d", "a", "y", "s">> @@
       "for 7 days" :> <<"f", "o", "r", " ", "7", " ", "d", "a", "y", "s">> @@
       "tsp" :> <<"t", "s", "p">> @@
       "teaspoon" :> <<"t", "e", "a", "s", "p", "o", "o", "n">> @@
       "hemoglobin" :> <<"h", "e", "m", "o", "g", "l", "o", "b", "i", "n">> @@
       "wbc count" :> <<"w", "b", "c", " ", "c", "o", "u", "n", "t">> @@
       "rbc count" :> <<"r", "b", "c", " ", "c", "o", "u", "n", "t">> @@
       "platelet" :> <<"p", "l", "a", "t", "e", "l", "e", "t">> @@
       "neutrophils" :> <<"n", "e", "u", "t", "r", "o", "p", "h", "i", "l", "s">> @@
       "lymphocytes" :> <<"l", "y", "m", "p", "h", "o", "c", "y", "t", "e", "s">> @@
       "monocytes" :> <<"m", "o", "n", "o", "c", "y", "t", "e", "s">> @@
       "eosinophils" :> <<"e", "o", "s", "i", "n", "o", "p", "h", "i", "l", "s">> @@
       "basophils" :> <<"b", "a", "s", "o", "p", "h", "i", "l", "s">> @@
       "hematocrit" :> <<"h", "e", "m", "a", "t", "o", "c", "r", "i", "t">> @@
       "pcv" :> <<"p", "c", "v">> @@
       "mcv" :> <<"m", "c", "v">> @@
       "mch" :> <<"m", "c", "h">> @@
       "mchc" :> <<"m", "c", "h", "c">>

UpperChars == <<"A","B","C","D","E","F","G","H","I","J","K","L","M",
                "N","O","P","Q","R","S","T","U","V","W","X","Y","Z">>
LowerChars == <<"a","b","c","d","e","f","g","h","i","j","k","l","m",
                "n","o","p","q","r","s","t","u","v","w","x","y","z">>

LowerChar(c) ==
  IF \E i \in 1..26 : UpperChars[i] = c
    THEN LowerChars[CHOOSE i \in 1..26 : UpperChars[i] = c]
    ELSE c

\* str.lower() on the characters of a string
Lower(cs) == [i \in 1..Len(cs) |-> LowerChar(cs[i])]

\* `sub in cs` for Python strings (substring test, true for the empty string)
IsSubstring(sub, cs) ==
  \E k \in 0..(Len(cs) - Len(sub)) :
     \A i \in 1..Len(sub) : cs[k + i] = sub[i]

KnownStrings == DOMAIN Text

\* LowerContains[s][t]: t.lower() in s.lower();  RawContains[s][t]: t in s.lower()
LowerContains ==
  [s \in KnownStrings |-> [t \in KnownStrings |->
      IsSubstring(Lower(Text[t]), Lower(Text[s]))]]
RawContains ==
  [s \in KnownStrings |-> [t \in KnownStrings |->
      IsSubstring(Text[t], Lower(Text[s]))]]

\* .get(f, '') of a string field: a missing key reads as ''.  A null value
\* reads as None, on which the callers' .lower() and .strip() raise (see
\* ValidateDocumentsRaises, VerifyCoverageRaises); where the caller only tests
\* the value, None counts as '' too
StrOrEmpty(s) == IF s = None \/ s = Omitted THEN "" ELSE s

Truthy(s) == s # None /\ s # Omitted /\ s # ""

\* str.replace('-', ' ')
ReplaceDash(cs) == [i \in 1..Len(cs) |-> IF cs[i] = "-" THEN " " ELSE cs[i]]

\* str.split(): the maximal runs of non-blank characters, as a set
Tokens(cs) ==
  { SubSeq(cs, x[1], x[2]) :
      x \in { y \in (1..Len(cs)) \X (1..Len(cs)) :
                /\ y[1] <= y[2]
                /\ \A i \in y[1]..y[2] : cs[i] # " "
                /\ (y[1] = 1 \/ cs[y[1] - 1] = " ")
                /\ (y[2] = Len(cs) \/ cs[y[2] + 1] = " ") } }

\* the two string loops of _is_test_covered_llm: a covered test occurs in the
\* description, or every token of a covered test does
TestMatches ==
  [s \in KnownStrings |-> [t \in KnownStrings |->
      \/ IsSubstring(Lower(Text[t]), Lower(Text[s]))
      \/ \A tok \in Tokens(ReplaceDash(Lower(Text[t]))) :
            IsSubstring(tok, Lower(Text[s]))]]

\* any(k in description.lower() for k in keywords), keywords used as written
AnyRawIn(keywords, description) ==
  \E i \in 1..Len(keywords) : RawContains[description][keywords[i]]

\* any(k.lower() in description.lower() for k in terms)
AnyLowerIn(terms, description) ==
  \E i \in 1..Len(terms) : LowerContains[description][terms[i]]

\* ------------------------------------------------------------------------
\* Small helpers
\* ------------------------------------------------------------------------
Min(a, b) == IF a < b THEN a ELSE b
Max(a, b) == IF a > b THEN a ELSE b

RECURSIVE SumSeq(_)
SumSeq(s) == IF s = <<>> THEN 0 ELSE Head(s) + SumSeq(Tail(s))

RECURSIVE FlattenSeq(_)
FlattenSeq(ss) == IF ss = <<>> THEN <<>> ELSE Head(ss) \o FlattenSeq(Tail(ss))

\* dict.get(key, default) for an optional numeric key
Get(v, default) == IF v = Unset THEN default ELSE v

\* amount * pct / 100, exact for the modelled amounts
Percent(amount, pct) == (amount * pct) \div 100

\* ------------------------------------------------------------------------
\* Policy configuration (self.policy)
\* ------------------------------------------------------------------------
Categories == {"consultation", "diagnostic", "pharmacy", "dental", "vision",
               "alternative_medicine"}

\* category_map of _is_category_covered and _get_category_config
category_map ==
  [c \in Categories |->
     CASE c = "consultation" -> "consultation_fees"
       [] c = "diagnostic"   -> "diagnostic_tests"
       [] OTHER              -> c]

\* defaults that policy.get(...) substitutes for a missing key
DefaultHighValueThreshold == 25000
DefaultFraudThreshold == 700
DefaultManualReviewThreshold == 500
DefaultConfidenceThreshold == 700
DefaultMissingFieldPenalty == 100
DefaultWarningPenalty == 50
DefaultFraudImpact == 300
DefaultCosmeticKeywords == <<"whitening", "bleaching", "cosmetic", "aesthetic", "beauty">>
DefaultExperimentalKeywords == <<"experimental", "investigational", "trial", "unproven">>
DefaultRequiredDocTypes == <<"prescription", "medical_bill">>
DefaultCriticalFields == <<"doctor_registration", "hospital_name">>

BasePolicy ==
  [ policy_id |-> "POL1",
    effective_date |-> 100,
    policy_end_date |-> 465,
    waiting_periods |-> [initial_waiting |-> 30],
    coverage_details |->
      [ annual_limit |-> 50000,
        per_claim_limit |-> 5000,
        consultation_fees |-> [covered |-> TRUE, sub_limit |-> 1000, copay_percentage |-> 10],
        diagnostic_tests |-> [covered |-> TRUE, sub_limit |-> 3000,
                              covered_tests |-> <<"blood-test">>,
                              pre_authorization_required |-> TRUE],
        pharmacy |-> [covered |-> TRUE, sub_limit |-> 2000, branded_drugs_copay |-> 30],
        dental |-> [covered |-> TRUE, sub_limit |-> 2000, procedures_covered |-> <<"root canal">>],
        vision |-> [covered |-> TRUE, sub_limit |-> 0],
        alternative_medicine |-> [covered |-> TRUE, sub_limit |-> 1000,
                                  covered_treatments |-> <<"ayurveda">>] ],
    exclusions |-> <<"cosmetic surgery">>,
    claim_requirements |->
      [ required_document_types |-> DefaultRequiredDocTypes,
        minimum_claim_amount |-> 500,
        submission_timeline_days |-> 30 ],
    medical_necessity_rules |->
      [ cosmetic_keywords |-> DefaultCosmeticKeywords,
        experimental_keywords |-> DefaultExperimentalKeywords ],
    fraud_detection |->
      [ high_value_threshold |-> DefaultHighValueThreshold,
        critical_fields |-> DefaultCriticalFields,
        manual_review_threshold |-> Unset,
        fraud_threshold |-> Unset ],
    adjudication_rules |->
      [ confidence_threshold |-> DefaultConfidenceThreshold,
        confidence_weights |->
          [ missing_field_penalty |-> DefaultMissingFieldPenalty,
            warning_penalty |-> DefaultWarningPenalty,
            fraud_impact |-> DefaultFraudImpact ] ] ]

\* ------------------------------------------------------------------------
\* Coverage analysis (per item)
\* ------------------------------------------------------------------------
\* the result dict _analyze_item_detailed starts from
InitialResult(item) ==
  [ description |-> item.description,
    category |-> item.category,
    claimed_amount |-> item.amount,
    approved_amount |-> 0,
    rejected_amount |-> 0,
    copay_amount |-> 0,
    status |-> "rejected",
    reason |-> "",
    sub_limit_exceeded |-> FALSE ]

RejectAll(result, amount, why) ==
  [result EXCEPT !.rejected_amount = amount, !.reason = why]

RejectOverLimit(result, amount, why) ==
  [result EXCEPT !.rejected_amount = amount, !.reason = why,
                 !.sub_limit_exceeded = TRUE]

ApproveAll(result, amount, why) ==
  [result EXCEPT !.approved_amount = amount, !.status = "approved", !.reason = why]

\* variant: the copay is computed but not deducted from the approved amount
_check_consultation_coverage_KeepsCopay(pol, item, result) ==
  LET policy == pol.coverage_details.consultation_fees
      amount == item.amount
      sub_limit == policy.sub_limit
      copay_pct == policy.copay_percentage
  IN IF ~policy.covered
       THEN RejectAll(result, amount, "Consultation not covered")
     ELSE IF sub_limit # 0 /\ amount > sub_limit
       THEN LET copay == Percent(sub_limit, copay_pct)
            IN [result EXCEPT !.approved_amount = sub_limit - copay,
                              !.copay_amount = copay,
                              !.rejected_amount = amount - sub_limit,
                              !.status = "partial",
                              !.sub_limit_exceeded = TRUE,
                              !.reason = "Partial approval"]
     ELSE LET copay == Percent(amount, copay_pct)
          IN [result EXCEPT !.approved_amount = amount,
                            !.copay_amount = copay,
                            !.status = "approved",
                            !.reason = "Approved with copay"]

\* variant: above the sub-limit the copay is taken on the claimed amount
_check_consultation_coverage_CopayOnAmount(pol, item, result) ==
  LET policy == pol.coverage_details.consultation_fees
      amount == item.amount
      sub_limit == policy.sub_limit
      copay_pct == policy.copay_percentage
  IN IF ~policy.covered
       THEN RejectAll(result, amount, "Consultation not covered")
     ELSE IF sub_limit # 0 /\ amount > sub_limit
       THEN LET copay == Percent(amount, copay_pct)
            IN [result EXCEPT !.approved_amount = sub_limit - copay,
                              !.copay_amount = copay,
                              !.rejected_amount = amount - sub_limit,
                              !.status = "partial",
                              !.sub_limit_exceeded = TRUE,
                              !.reason = "Partial approval"]
     ELSE LET copay == Percent(amount, copay_pct)
          IN [result EXCEPT !.approved_amount = amount - copay,
                            !.copay_amount = copay,
                            !.status = "approved",
                            !.reason = "Approved with copay"]

_check_consultation_coverage(pol, item, result) ==
  LET policy == pol.coverage_details.consultation_fees
      amount == item.amount
      sub_limit == policy.sub_limit
      copay_pct == policy.copay_percentage
  IN IF ~policy.covered
       THEN RejectAll(result, amount, "Consultation not covered")
     ELSE IF sub_limit # 0 /\ amount > sub_limit
       THEN LET copay == Percent(sub_limit, copay_pct)
            IN [result EXCEPT !.approved_amount = sub_limit - copay,
                              !.copay_amount = copay,
                              !.rejected_amount = amount - sub_limit,
                              !.status = "partial",
                              !.sub_limit_exceeded = TRUE,
                              !.reason = "Partial approval"]
     ELSE LET copay == Percent(amount, copay_pct)
          IN [result EXCEPT !.approved_amount = amount - copay,
                            !.copay_amount = copay,
                            !.status = "approved",
                            !.reason = "Approved with copay"]

\* the string part of _is_test_covered_llm
TestMatchedByText(description, covered_tests) ==
  \E i \in 1..Len(covered_tests) : TestMatches[description][covered_tests[i]]

\* _is_test_covered_llm: llm is what the semantic matcher answers when asked
\* (FALSE also stands for a failed call)
_is_test_covered_llm(description, covered_tests, llm) ==
  TestMatchedByText(description, covered_tests) \/ llm

_check_diagnostic_coverage(pol, item, result, llm) ==
  LET policy == pol.coverage_details.diagnostic_tests
      amount == item.amount
      sub_limit == policy.sub_limit
  IN IF ~policy.covered
       THEN RejectAll(result, amount, "Diagnostics not covered")
     ELSE IF ~_is_test_covered_llm(item.description, policy.covered_tests, llm)
       THEN RejectAll(result, amount, "Test not in covered list")
     ELSE IF sub_limit # 0 /\ amount > sub_limit
       THEN RejectOverLimit(result, amount, "Exceeds diagnostic limit")
     ELSE ApproveAll(result, amount, "Covered diagnostic test")

_check_pharmacy_coverage(pol, item, result) ==
  LET policy == pol.coverage_details.pharmacy
      amount == item.amount
      sub_limit == policy.sub_limit
  IN IF ~policy.covered
       THEN RejectAll(result, amount, "Pharmacy not covered")
     ELSE IF sub_limit # 0 /\ amount > sub_limit
       THEN RejectOverLimit(result, amount, "Exceeds pharmacy limit")
     ELSE IF RawContains[item.description]["generic"]
       THEN ApproveAll(result, amount, "Generic drug - 100% covered")
     ELSE LET copay == Percent(amount, policy.branded_drugs_copay)
          IN [result EXCEPT !.approved_amount = amount - copay,
                            !.copay_amount = copay,
                            !.status = "approved",
                            !.reason = "Branded drug copay"]

_check_dental_coverage(pol, item, result) ==
  LET policy == pol.coverage_details.dental
      amount == item.amount
      sub_limit == policy.sub_limit
  IN IF ~policy.covered
       THEN RejectAll(result, amount, "Dental not covered")
     ELSE IF sub_limit # 0 /\ amount > sub_limit
       THEN RejectOverLimit(result, amount, "Exceeds dental limit")
     ELSE IF ~AnyLowerIn(policy.procedures_covered, item.description)
       THEN RejectAll(result, amount, "Dental procedure not covered")
     ELSE ApproveAll(result, amount, "Covered dental procedure")

_check_vision_coverage(pol, item, result) ==
  LET policy == pol.coverage_details.vision
      amount == item.amount
      sub_limit == policy.sub_limit
  IN IF ~policy.covered
       THEN RejectAll(result, amount, "Vision not covered")
     ELSE IF sub_limit # 0 /\ amount > sub_limit
       THEN RejectOverLimit(result, amount, "Exceeds vision limit")
     ELSE ApproveAll(result, amount, "Covered vision service")

_check_alternative_coverage(pol, item, result) ==
  LET policy == pol.coverage_details.alternative_medicine
      amount == item.amount
      sub_limit == policy.sub_limit
  IN IF ~policy.covered
       THEN RejectAll(result, amount, "Alternative medicine not covered")
     ELSE IF ~AnyLowerIn(policy.covered_treatments, item.description)
       THEN RejectAll(result, amount, "Treatment type not covered")
     ELSE IF sub_limit # 0 /\ amount > sub_limit
       THEN RejectOverLimit(result, amount, "Exceeds alternative medicine limit")
     ELSE ApproveAll(result, amount, "Covered alternative medicine")

_analyze_item_detailed(pol, item, llm) ==
  LET result == InitialResult(item)
      category == item.category
  IN IF AnyLowerIn(pol.exclusions, item.description)
       THEN RejectAll(result, item.amount, "Excluded")
     ELSE CASE category = "consultation" -> _check_consultation_coverage(pol, item, result)
            [] category = "diagnostic" -> _check_diagnostic_coverage(pol, item, result, llm)
            [] category = "pharmacy" -> _check_pharmacy_coverage(pol, item, result)
            [] category = "dental" -> _check_dental_coverage(pol, item, result)
            [] category = "vision" -> _check_vision_coverage(pol, item, result)
            [] category = "alternative_medicine" -> _check_alternative_coverage(pol, item, result)
            [] OTHER -> RejectAll(result, item.amount, "Unknown category")

\* the item reaches the semantic test matcher of _is_test_covered_llm
AsksTestMatcher(pol, item) ==
  /\ item.amount > 0
  /\ ~AnyLowerIn(pol.exclusions, item.description)
  /\ item.category = "diagnostic"
  /\ pol.coverage_details.diagnostic_tests.covered
  /\ ~TestMatchedByText(item.description, pol.coverage_details.diagnostic_tests.covered_tests)

prescription_indicators ==
  <<"after food", "before food", "at bedtime", "twice daily", "thrice daily",
    "1-0-1", "0-0-1", "1-0-0", "for 5 days", "for 3 days", "for 7 days",
    "tsp", "teaspoon">>
lab_indicators ==
  <<"hemoglobin", "wbc count", "rbc count", "platelet", "neutrophils",
    "lymphocytes", "monocytes", "eosinophils", "basophils", "hematocrit",
    "pcv", "mcv", "mch", "mchc">>

\* the three `continue` tests at the head of analyze_coverage's loop
SkippedByAnalysis(item) ==
  \/ item.amount <= 0
  \/ AnyRawIn(prescription_indicators, item.description) /\ item.amount = 0
  \/ AnyRawIn(lab_indicators, item.description) /\ item.amount = 0

\* the indices of the items the loop of analyze_coverage does not skip, in order
KeptIndices(items) ==
  LET F[i \in 0..Len(items)] ==
        IF i = 0 THEN <<>>
        ELSE IF ~SkippedByAnalysis(items[i]) THEN Append(F[i - 1], i) ELSE F[i - 1]
  IN F[Len(items)]

\* variant: the copay of the last analysed item is left out of total_copay
analyze_coverage_DropsLastCopay(pol, items, llm) ==
  LET kept == KeptIndices(items)
      item_analysis ==
        [k \in 1..Len(kept) |-> _analyze_item_detailed(pol, items[kept[k]], llm[kept[k]])]
  IN [ item_analysis |-> item_analysis,
       total_approved |-> SumSeq([k \in 1..Len(kept) |-> item_analysis[k].approved_amount]),
       total_rejected |-> SumSeq([k \in 1..Len(kept) |-> item_analysis[k].rejected_amount]),
       total_copay |-> SumSeq([k \in 1..(Len(kept) - 1) |-> item_analysis[k].copay_amount]) ]

\* analyze_coverage: llm[i] is the test matcher's answer for items[i]
analyze_coverage(pol, items, llm) ==
  LET kept == KeptIndices(items)
      item_analysis ==
        [k \in 1..Len(kept) |-> _analyze_item_detailed(pol, items[kept[k]], llm[kept[k]])]
  IN [ item_analysis |-> item_analysis,
       total_approved |-> SumSeq([k \in 1..Len(kept) |-> item_analysis[k].approved_amount]),
       total_rejected |-> SumSeq([k \in 1..Len(kept) |-> item_analysis[k].rejected_amount]),
       total_copay |-> SumSeq([k \in 1..Len(kept) |-> item_analysis[k].copay_amount]) ]

\* ------------------------------------------------------------------------
\* Issues
\* ------------------------------------------------------------------------
\* an f-string message: its fixed text and the values formatted into it
Msg(text, num, item) == [text |-> text, num |-> num, item |-> item]

Issue(code, severity, message) ==
  [code |-> code, severity |-> severity, message |-> message, item |-> None]

\* an issue that names the line item it is about under the key 'item'
ItemIssue(code, severity, message, item) ==
  [code |-> code, severity |-> severity, message |-> message, item |-> item]

CriticalOf(issues) == SelectSeq(issues, LAMBDA i : i.severity = "critical")
WarningsOf(issues) == SelectSeq(issues, LAMBDA i : i.severity = "warning")
HasCode(issues, code) == \E k \in 1..Len(issues) : issues[k].code = code

\* claim_data.get('treatment_date', claim_data.get('claim_date'))
TreatmentOrClaimDate(claim) ==
  IF claim.treatment_date = NoDate THEN claim.claim_date ELSE claim.treatment_date

\* ------------------------------------------------------------------------
\* Step 1: check_basic_eligibility
\* ------------------------------------------------------------------------
\* variant: the checks stop at the first one that fails
check_basic_eligibility_FirstOnly(pol, claim, members) ==
  LET policy_start == pol.effective_date
      policy_end == pol.policy_end_date
      treatment_date == TreatmentOrClaimDate(claim)
      waiting_period_days == pol.waiting_periods.initial_waiting
      days_since_policy_start == treatment_date - policy_start
      member_id == claim.member_id
      inactive ==
        IF ~(policy_start <= treatment_date)
          THEN <<Issue("POLICY_INACTIVE", "critical",
                       Msg("Policy not active on treatment date", treatment_date, ""))>>
          ELSE <<>>
      expired ==
        IF policy_end # NoDate /\ treatment_date > policy_end
          THEN <<Issue("POLICY_EXPIRED", "critical",
                       Msg("Policy expired before treatment date", 0, ""))>>
          ELSE <<>>
      waiting ==
        IF days_since_policy_start < waiting_period_days
          THEN <<Issue("WAITING_PERIOD", "critical",
                       Msg("Treatment during waiting period",
                           waiting_period_days - days_since_policy_start, ""))>>
          ELSE <<>>
      member ==
        IF Truthy(member_id) /\ member_id \notin members
          THEN <<Issue("MEMBER_NOT_COVERED", "critical",
                       Msg("Member not found in database", 0, member_id))>>
          ELSE <<>>
      issues == IF inactive # <<>> THEN inactive
                ELSE IF expired # <<>> THEN expired
                ELSE IF waiting # <<>> THEN waiting
                ELSE member
  IN [ step |-> "basic_eligibility",
       is_eligible |-> (issues = <<>>),
       issues |-> issues ]

check_basic_eligibility(pol, claim, members) ==
  LET policy_start == pol.effective_date
      policy_end == pol.policy_end_date
      treatment_date == TreatmentOrClaimDate(claim)
      waiting_period_days == pol.waiting_periods.initial_waiting
      days_since_policy_start == treatment_date - policy_start
      member_id == claim.member_id
      inactive ==
        IF ~(policy_start <= treatment_date)
          THEN <<Issue("POLICY_INACTIVE", "critical",
                       Msg("Policy not active on treatment date", treatment_date, ""))>>
          ELSE <<>>
      expired ==
        IF policy_end # NoDate /\ treatment_date > policy_end
          THEN <<Issue("POLICY_EXPIRED", "critical",
                       Msg("Policy expired before treatment date", 0, ""))>>
          ELSE <<>>
      waiting ==
        IF days_since_policy_start < waiting_period_days
          THEN <<Issue("WAITING_PERIOD", "critical",
                       Msg("Treatment during waiting period",
                           waiting_period_days - days_since_policy_start, ""))>>
          ELSE <<>>
      member ==
        IF Truthy(member_id) /\ member_id \notin members
          THEN <<Issue("MEMBER_NOT_COVERED", "critical",
                       Msg("Member not found in database", 0, member_id))>>
          ELSE <<>>
      issues == inactive \o expired \o waiting \o member
  IN [ step |-> "basic_eligibility",
       is_eligible |-> (issues = <<>>),
       issues |-> issues ]

\* ------------------------------------------------------------------------
\* Step 2: validate_documents
\* ------------------------------------------------------------------------
\* t.lower().replace('_', ' ').replace('-', ' ')
NormalizeType(cs) ==
  [i \in 1..Len(cs) |->
     IF Lower(cs)[i] = "_" \/ Lower(cs)[i] = "-" THEN " " ELSE Lower(cs)[i]]

NormalizedType == [s \in KnownStrings |-> NormalizeType(Text[s])]

Digits == {"0", "1", "2", "3", "4", "5", "6", "7", "8", "9"}

\* re.match of the default format ^[A-Z]{2}/\d+/\d{4}$
MatchesDefaultRegFormat(cs) ==
  /\ Len(cs) >= 9
  /\ \A i \in 1..2 : \E k \in 1..26 : UpperChars[k] = cs[i]
  /\ cs[3] = "/"
  /\ cs[Len(cs) - 4] = "/"
  /\ \A i \in 4..(Len(cs) - 5) : cs[i] \in Digits
  /\ \A i \in (Len(cs) - 3)..Len(cs) : cs[i] \in Digits

RegistrationWellFormed == [s \in KnownStrings |-> MatchesDefaultRegFormat(Text[s])]

_validate_doctor_registration(reg_number) == RegistrationWellFormed[reg_number]

\* len(s.strip())
StrippedLen(cs) ==
  LET nonblank == {i \in 1..Len(cs) : cs[i] # " "}
  IN IF nonblank = {} THEN 0
     ELSE (CHOOSE i \in nonblank : \A j \in nonblank : j <= i)
          - (CHOOSE i \in nonblank : \A j \in nonblank : j >= i) + 1

NameLength == [s \in KnownStrings |-> StrippedLen(Text[s])]

\* len(patient_name.strip()) on a patient_name that is present and null
ValidateDocumentsRaises(claim) == claim.patient_name = None

validate_documents(pol, claim) ==
  LET required_doc_types == pol.claim_requirements.required_document_types
      submitted_doc_types == claim.document_types_submitted
      submitted_normalized ==
        {NormalizedType[submitted_doc_types[k]] : k \in 1..Len(submitted_doc_types)}
      missing_types ==
        SelectSeq(required_doc_types,
                  LAMBDA t : NormalizedType[t] \notin submitted_normalized)
      doc_issues ==
        [k \in 1..Len(missing_types) |->
           Issue("MISSING_DOCUMENT_TYPE", "critical",
                 Msg("Required document type not uploaded", 0, missing_types[k]))]
      MissingField(name) ==
        <<Issue("MISSING_REQUIRED_FIELD", "critical",
                Msg("Required field missing", 0, name))>>
      field_issues ==
           (IF ~Truthy(claim.patient_name) THEN MissingField("Patient Name") ELSE <<>>)
        \o (IF claim.treatment_date = NoDate THEN MissingField("Treatment Date") ELSE <<>>)
        \o (IF claim.total_amount = 0 THEN MissingField("Total Amount") ELSE <<>>)
        \o (IF claim.items = <<>> THEN MissingField("Line Items") ELSE <<>>)
      doctor_reg == claim.doctor_registration
      reg_issues ==
        IF Truthy(doctor_reg)
          THEN IF ~_validate_doctor_registration(doctor_reg)
                 THEN <<Issue("DOCTOR_REG_INVALID", "warning",
                              Msg("Invalid doctor registration format", 0, doctor_reg))>>
                 ELSE <<>>
          ELSE <<Issue("DOCTOR_REG_MISSING", "warning",
                       Msg("Doctor registration number not found in documents", 0, ""))>>
      date_issues ==
        IF claim.claim_date # NoDate /\ claim.treatment_date # NoDate
             /\ claim.claim_date < claim.treatment_date
          THEN <<Issue("DATE_MISMATCH", "warning",
                       Msg("Claim date is before treatment date", claim.claim_date, ""))>>
          ELSE <<>>
      name_issues ==
        IF NameLength[StrOrEmpty(claim.patient_name)] < 3
          THEN <<Issue("PATIENT_NAME_INCOMPLETE", "warning",
                       Msg("Patient name appears incomplete or invalid", 0, ""))>>
          ELSE <<>>
      doctor_issues ==
        IF ~Truthy(claim.doctor_name)
          THEN <<Issue("DOCTOR_NAME_MISSING", "warning",
                       Msg("Doctor name not found in documents", 0, ""))>>
          ELSE <<>>
      hospital_issues ==
        IF ~Truthy(claim.hospital_name)
          THEN <<Issue("HOSPITAL_NAME_MISSING", "warning",
                       Msg("Hospital/clinic name not found in documents", 0, ""))>>
          ELSE <<>>
      issues == doc_issues \o field_issues \o reg_issues \o date_issues
                \o name_issues \o doctor_issues \o hospital_issues
  IN [ step |-> "document_validation",
       is_valid |-> (doc_issues = <<>> /\ field_issues = <<>>),
       issues |-> issues ]

\* ------------------------------------------------------------------------
\* Step 3: verify_coverage
\* ------------------------------------------------------------------------
_is_category_covered(pol, category) ==
  IF category \notin Categories THEN FALSE
  ELSE pol.coverage_details[category_map[category]].covered

pre_auth_keywords == <<"mri", "ct", "ct scan", "mri scan">>

_check_pre_authorization(pol, claim) ==
  LET requires_pre_auth_flag ==
        pol.coverage_details.diagnostic_tests.pre_authorization_required
      flagged ==
        SelectSeq(claim.items,
                  LAMBDA item : /\ AnyRawIn(pre_auth_keywords, item.description)
                                /\ requires_pre_auth_flag
                                /\ ~Truthy(claim.pre_authorization_number))
  IN [k \in 1..Len(flagged) |->
        Issue("PRE_AUTH_MISSING", "critical",
              Msg("Pre-authorization required for", 0, flagged[k].description))]

\* claim_data.get('diagnosis', '').lower() inside the item loop, on a diagnosis
\* that is present and null
VerifyCoverageRaises(claim) == claim.items # <<>> /\ claim.diagnosis = None

verify_coverage(pol, claim) ==
  LET items == claim.items
      exclusions == pol.exclusions
      diagnosis == StrOrEmpty(claim.diagnosis)
      ExclusionIssues(item) ==
        LET hit == SelectSeq(exclusions,
                     LAMBDA e : \/ LowerContains[item.description][e]
                                \/ LowerContains[diagnosis][e])
        IN [k \in 1..Len(hit) |->
              ItemIssue("EXCLUDED_CONDITION", "critical",
                        Msg("Service excluded", 0, hit[k]), item.description)]
      CategoryIssues(item) ==
        IF ~_is_category_covered(pol, item.category)
          THEN <<ItemIssue("SERVICE_NOT_COVERED", "critical",
                           Msg("Service category not covered", 0, item.category),
                           item.description)>>
          ELSE <<>>
      item_issues ==
        FlattenSeq([k \in 1..Len(items) |->
                      ExclusionIssues(items[k]) \o CategoryIssues(items[k])])
      pre_auth_issues == _check_pre_authorization(pol, claim)
      issues == item_issues \o pre_auth_issues
  IN [ step |-> "coverage_verification",
       coverage_valid |-> (issues = <<>>),
       issues |-> issues ]

\* ------------------------------------------------------------------------
\* Step 4: validate_limits
\* ------------------------------------------------------------------------
\* _get_category_config(category).get('sub_limit', 0); an unknown category
\* maps to no policy key and so to an empty configuration
CategorySubLimit(pol, category) ==
  IF category \notin Categories THEN 0
  ELSE pol.coverage_details[category_map[category]].sub_limit

\* category_usage.get(category, 0)
CategoryUsage(category_usage, category) ==
  IF category \in DOMAIN category_usage THEN category_usage[category] ELSE 0

\* util is the row get_policy_utilization returns for the claim's policy
_check_sub_limits(pol, claim, coverage_analysis, util) ==
  LET category_usage ==
        IF Truthy(claim.policy_id) THEN util.category_usage ELSE <<>>
      over ==
        SelectSeq(coverage_analysis.item_analysis,
                  LAMBDA ia :
                    LET sub_limit == CategorySubLimit(pol, ia.category)
                        ytd_used == CategoryUsage(category_usage, ia.category)
                        remaining == sub_limit - ytd_used
                    IN sub_limit # 0 /\ ia.claimed_amount > remaining)
  IN [k \in 1..Len(over) |->
        ItemIssue("SUB_LIMIT_EXCEEDED", "warning",
                  Msg("sub-limit exceeded", over[k].claimed_amount, over[k].category),
                  over[k].description)]

validate_limits(pol, claim, coverage_analysis, util) ==
  LET total_claimed == claim.total_amount
      min_amount == pol.claim_requirements.minimum_claim_amount
      per_claim_limit == pol.coverage_details.per_claim_limit
      claims_ytd == IF Truthy(claim.policy_id) THEN util.total_approved_ytd ELSE 0
      annual_limit == pol.coverage_details.annual_limit
      timeline_days == pol.claim_requirements.submission_timeline_days
      days_diff == claim.claim_date - TreatmentOrClaimDate(claim)
      below_min ==
        IF min_amount # 0 /\ total_claimed < min_amount
          THEN <<Issue("BELOW_MIN_AMOUNT", "critical",
                       Msg("Claim amount below minimum", total_claimed, ""))>>
          ELSE <<>>
      per_claim ==
        IF per_claim_limit # 0 /\ total_claimed > per_claim_limit
          THEN <<Issue("PER_CLAIM_EXCEEDED", "critical",
                       Msg("Claim amount exceeds per-claim limit", total_claimed, ""))>>
          ELSE <<>>
      annual ==
        IF annual_limit # 0 /\ (claims_ytd + total_claimed) > annual_limit
          THEN <<Issue("ANNUAL_LIMIT_EXCEEDED", "critical",
                       Msg("Total claims would exceed annual limit",
                           claims_ytd + total_claimed, ""))>>
          ELSE <<>>
      sub_limit_issues == _check_sub_limits(pol, claim, coverage_analysis, util)
      late ==
        IF timeline_days # 0 /\ days_diff > timeline_days
          THEN <<Issue("LATE_SUBMISSION", "critical",
                       Msg("Claim submitted after treatment, exceeds day limit", days_diff, ""))>>
          ELSE <<>>
      issues == below_min \o per_claim \o annual \o sub_limit_issues \o late
  IN [ step |-> "limit_validation",
       limits_valid |-> (below_min = <<>> /\ per_claim = <<>> /\ annual = <<>> /\ late = <<>>),
       issues |-> issues ]

\* ------------------------------------------------------------------------
\* Step 5: review_medical_necessity
\* ------------------------------------------------------------------------
\* what _llm_medical_necessity_check returns when the call or the parse fails
LlmFallback ==
  [ is_necessary |-> TRUE,
    reason |-> Msg("Could not parse LLM response, defaulting to approval", 0, ""),
    warnings |-> <<>> ]

\* llm_assessment is the dict _llm_medical_necessity_check returns
review_medical_necessity(pol, claim, llm_assessment) ==
  LET diagnosis == StrOrEmpty(claim.diagnosis)
      items == claim.items
      cosmetic_keywords == pol.medical_necessity_rules.cosmetic_keywords
      experimental_keywords == pol.medical_necessity_rules.experimental_keywords
      no_diagnosis ==
        IF diagnosis = ""
          THEN <<Issue("NOT_MEDICALLY_NECESSARY", "warning",
                       Msg("No diagnosis provided to justify treatment", 0, ""))>>
          ELSE <<>>
      cosmetic_items ==
        SelectSeq(items, LAMBDA item : AnyRawIn(cosmetic_keywords, item.description))
      cosmetic ==
        [k \in 1..Len(cosmetic_items) |->
           Issue("COSMETIC_PROCEDURE", "critical",
                 Msg("Cosmetic procedure not covered", 0, cosmetic_items[k].description))]
      experimental_items ==
        SelectSeq(items, LAMBDA item : AnyRawIn(experimental_keywords, item.description))
      experimental ==
        [k \in 1..Len(experimental_items) |->
           Issue("EXPERIMENTAL_TREATMENT", "critical",
                 Msg("Experimental treatment not covered", 0,
                     experimental_items[k].description))]
      asked == diagnosis # "" /\ items # <<>>
      not_necessary ==
        IF asked /\ ~llm_assessment.is_necessary
          THEN <<Issue("NOT_MEDICALLY_NECESSARY", "critical", llm_assessment.reason)>>
          ELSE <<>>
      llm_warnings ==
        IF asked
          THEN [k \in 1..Len(llm_assessment.warnings) |->
                  Issue("MEDICAL_REVIEW_WARNING", "warning", llm_assessment.warnings[k])]
          ELSE <<>>
      issues == no_diagnosis \o cosmetic \o experimental \o not_necessary \o llm_warnings
  IN [ step |-> "medical_necessity",
       is_necessary |-> (cosmetic = <<>> /\ experimental = <<>> /\ not_necessary = <<>>),
       issues |-> issues ]

\* ------------------------------------------------------------------------
\* Step 6: detect_fraud_indicators
\* ------------------------------------------------------------------------
Indicator(type, severity, message, score) ==
  [type |-> type, severity |-> severity, message |-> message, score |-> score]

\* critical_fields name string-valued fields of the claim record
FieldMissing(claim, field) == ~Truthy(claim[field])

detect_fraud_indicators(pol, claim) ==
  LET fraud_config == pol.fraud_detection
      high_value_threshold == Get(fraud_config.high_value_threshold, DefaultHighValueThreshold)
      total_amount == claim.total_amount
      high_value ==
        IF total_amount > high_value_threshold
          THEN <<Indicator("HIGH_VALUE", "medium",
                           Msg("High-value claim", total_amount, ""),
                           Min(300, (total_amount * 200) \div high_value_threshold))>>
          ELSE <<>>
      critical_fields == fraud_config.critical_fields
      missing_fields == SelectSeq(critical_fields, LAMBDA f : FieldMissing(claim, f))
      missing ==
        [k \in 1..Len(missing_fields) |->
           Indicator("MISSING_INFO", "medium",
                     Msg("Missing critical field", 0, missing_fields[k]), 200)]
      items == claim.items
      suspicious ==
        IF Len(items) > 2 /\ \A k \in 1..Len(items) : items[k].amount % 1000 = 0
          THEN <<Indicator("SUSPICIOUS_AMOUNTS", "low",
                           Msg("All amounts are round numbers", 0, ""), 100)>>
          ELSE <<>>
      indicators == high_value \o missing \o suspicious
      fraud_score == SumSeq([k \in 1..Len(indicators) |-> indicators[k].score])
      fraud_threshold == Get(fraud_config.manual_review_threshold, DefaultManualReviewThreshold)
  IN [ fraud_score |-> Min(fraud_score, 1000),
       indicators |-> indicators,
       requires_manual_review |-> fraud_score > fraud_threshold ]

\* ------------------------------------------------------------------------
\* Step 7: make_adjudication_decision
\* ------------------------------------------------------------------------
\* max(0.0, min(1.0, score)) of _calculate_comprehensive_confidence
_calculate_comprehensive_confidence(pol, claim, warnings, fraud_detection) ==
  LET confidence_config == pol.adjudication_rules.confidence_weights
      missing_field_penalty ==
        Get(confidence_config.missing_field_penalty, DefaultMissingFieldPenalty)
      warning_penalty == Get(confidence_config.warning_penalty, DefaultWarningPenalty)
      fraud_impact == Get(confidence_config.fraud_impact, DefaultFraudImpact)
      score ==
          1000
        - (IF ~Truthy(claim.doctor_registration) THEN missing_field_penalty ELSE 0)
        - (IF ~Truthy(claim.hospital_name) THEN missing_field_penalty \div 2 ELSE 0)
        - (IF ~Truthy(claim.doctor_name) THEN missing_field_penalty \div 2 ELSE 0)
        - (IF ~Truthy(claim.diagnosis) THEN missing_field_penalty ELSE 0)
        - Len(warnings) * warning_penalty
        - (fraud_detection.fraud_score * fraud_impact) \div 1000
  IN Max(0, Min(1000, score))

\* round(x, 2) of a score in thousandths (ties to the even hundredth)
RoundScore(x) ==
  LET q == x \div 10
      r == x % 10
  IN IF r < 5 THEN q * 10
     ELSE IF r > 5 THEN (q + 1) * 10
     ELSE IF q % 2 = 0 THEN q * 10 ELSE (q + 1) * 10

\* round(x, 2) of an amount in whole rupees
RoundAmount(x) == x

\* variant: a REJECTED decision leaves the item's copay in place
RejectedCopy_KeepsCopay(item) ==
  [item EXCEPT !.status = "rejected",
               !.approved_amount = 0,
               !.rejected_amount = item.claimed_amount]

\* the amounts a REJECTED decision writes into the copy of an item
RejectedCopy(item) ==
  [item EXCEPT !.status = "rejected",
               !.approved_amount = 0,
               !.copay_amount = 0,
               !.rejected_amount = item.claimed_amount]

\* the copy of an item with the final_* keys added
Finalized(copy, final_status, final_approved_amount, final_reason) ==
  [ description |-> copy.description,
    category |-> copy.category,
    claimed_amount |-> copy.claimed_amount,
    approved_amount |-> copy.approved_amount,
    rejected_amount |-> copy.rejected_amount,
    copay_amount |-> copy.copay_amount,
    status |-> copy.status,
    reason |-> copy.reason,
    sub_limit_exceeded |-> copy.sub_limit_exceeded,
    final_status |-> final_status,
    final_approved_amount |-> final_approved_amount,
    final_reason |-> final_reason ]

_finalize_item_breakdown(item_analysis, final_decision, rejection_reason) ==
  [k \in 1..Len(item_analysis) |->
     LET item == item_analysis[k]
     IN CASE final_decision = "REJECTED" ->
               Finalized(RejectedCopy(item), "rejected", 0, "Claim rejected")
          [] final_decision = "MANUAL_REVIEW" ->
               Finalized(item, "pending_review", 0, "Awaiting manual review")
          [] final_decision = "PARTIAL" ->
               Finalized(item, item.status, item.approved_amount, item.reason)
          [] final_decision = "APPROVED" ->
               Finalized(item, item.status, item.approved_amount, item.reason)]

\* the issue codes of the program for which code.startswith('MISSING_') holds
MissingPrefixedCodes == {"MISSING_DOCUMENT_TYPE", "MISSING_REQUIRED_FIELD"}

\* 'failed' when the code of a critical issue is one of codes
StepStatus(critical_issues, codes) ==
  IF \E k \in 1..Len(critical_issues) : critical_issues[k].code \in codes
    THEN "failed" ELSE "passed"

\* the validation_steps and coverage_summary entries of the reasoning object
_build_judgment_reasoning(claim, decision, critical_issues, coverage_analysis, approved_amount) ==
  [ validation_steps |->
      [ eligibility |->
          StepStatus(critical_issues, {"POLICY_INACTIVE", "POLICY_EXPIRED", "WAITING_PERIOD"}),
        documents |-> StepStatus(critical_issues, MissingPrefixedCodes),
        coverage |->
          StepStatus(critical_issues, {"EXCLUDED_CONDITION", "SERVICE_NOT_COVERED"}),
        limits |->
          StepStatus(critical_issues, {"ANNUAL_LIMIT_EXCEEDED", "PER_CLAIM_EXCEEDED"}),
        medical_necessity |->
          StepStatus(critical_issues, {"COSMETIC_PROCEDURE", "EXPERIMENTAL_TREATMENT",
                                       "NOT_MEDICALLY_NECESSARY"}) ],
    coverage_summary |->
      [ total_claimed |-> claim.total_amount,
        eligible_amount |-> coverage_analysis.total_approved + coverage_analysis.total_copay,
        copay_deduction |-> coverage_analysis.total_copay,
        not_covered |-> coverage_analysis.total_rejected,
        final_approved |->
          IF decision \in {"APPROVED", "PARTIAL"} THEN approved_amount ELSE 0 ] ]

\* reason is the fixed text of the reason string and reason_parts the list joined
\* into it ('; '.join of manual_review_reasons or partial_reasons)
_create_decision_output(pol, claim, decision, approved_amount, critical_issues, warnings, confidence, coverage_analysis, reason, reason_parts, indicators) ==
  LET total_copay == coverage_analysis.total_copay
      total_rejected_items == coverage_analysis.total_rejected
  IN [ claim_id |-> claim.claim_id,
       decision |-> decision,
       approved_amount |-> RoundAmount(approved_amount),
       rejection_reasons |->
         IF decision = "REJECTED"
           THEN {critical_issues[k].code : k \in 1..Len(critical_issues)}
           ELSE {},
       confidence_score |-> RoundScore(confidence),
       reasoning |-> _build_judgment_reasoning(claim, decision, critical_issues,
                                               coverage_analysis, approved_amount),
       reason |-> reason,
       reason_parts |-> reason_parts,
       total_claimed |-> RoundAmount(claim.total_amount),
       deductions |-> [copay |-> RoundAmount(total_copay),
                       rejected_items |-> RoundAmount(total_rejected_items)],
       patient_payable |-> RoundAmount(total_rejected_items + total_copay),
       insurance_payable |-> RoundAmount(approved_amount),
       critical_issues |-> critical_issues,
       warnings |-> warnings,
       item_breakdown |->
         _finalize_item_breakdown(coverage_analysis.item_analysis, decision, reason),
       fraud_indicators |-> indicators,
       policy_id |-> pol.policy_id ]

\* the codes of the rejection_codes dict
rejection_codes ==
  {"POLICY_INACTIVE", "POLICY_EXPIRED", "WAITING_PERIOD", "MEMBER_NOT_COVERED",
   "EXCLUDED_CONDITION", "COSMETIC_PROCEDURE", "EXPERIMENTAL_TREATMENT",
   "LATE_SUBMISSION"}

\* the fraud threshold the decision reads from the policy
DecisionFraudThreshold(pol) ==
  Get(pol.fraud_detection.fraud_threshold, DefaultFraudThreshold)

\* all issues of the five step results, in the order the decision collects them
CollectedIssues(eligibility, doc_validation, coverage_verification, limit_validation, medical_necessity) ==
  eligibility.issues \o doc_validation.issues \o coverage_verification.issues
  \o limit_validation.issues \o medical_necessity.issues

\* the list manual_review_reasons
ManualReviewReasons(pol, claim, confidence_score, fraud_detection) ==
  LET high_value_threshold ==
        Get(pol.fraud_detection.high_value_threshold, DefaultHighValueThreshold)
      fraud_threshold == DecisionFraudThreshold(pol)
      confidence_threshold == pol.adjudication_rules.confidence_threshold
      total_claimed == claim.total_amount
      indicator_types ==
        {fraud_detection.indicators[k].type : k \in 1..Len(fraud_detection.indicators)}
  IN   (IF fraud_detection.fraud_score > fraud_threshold
          THEN <<Msg("High fraud risk detected", 0, "")>> ELSE <<>>)
    \o (IF total_claimed > high_value_threshold
          THEN <<Msg("High-value claim", total_claimed, "")>> ELSE <<>>)
    \o (IF confidence_score < confidence_threshold
          THEN <<Msg("Low confidence score", confidence_score, "")>> ELSE <<>>)
    \o (IF "DOCUMENT_MODIFIED" \in indicator_types \/ "UNUSUAL_PATTERN" \in indicator_types
          THEN <<Msg("Suspicious patterns detected", 0, "")>> ELSE <<>>)

\* variant: a copay alone is no reason for a partial approval
PartialReasons_NoCopay(coverage_analysis, capped, per_claim_limit) ==
  LET total_rejected == coverage_analysis.total_rejected
      sub_limit_items ==
        SelectSeq(coverage_analysis.item_analysis, LAMBDA ia : ia.sub_limit_exceeded)
  IN   (IF total_rejected > 0
          THEN <<[text |-> "not covered", num |-> total_rejected, item |-> ""]>> ELSE <<>>)
    \o (IF sub_limit_items # <<>>
          THEN <<[text |-> "Some items exceed sub-limits", num |-> 0, item |-> ""]>>
          ELSE <<>>)
    \o (IF capped
          THEN <<[text |-> "Approved up to per-claim limit", num |-> per_claim_limit,
                  item |-> ""]>>
          ELSE <<>>)

\* the list partial_reasons; capped says the approved total was cut to the
\* per-claim limit
PartialReasons(coverage_analysis, capped, per_claim_limit) ==
  LET total_rejected == coverage_analysis.total_rejected
      total_copay == coverage_analysis.total_copay
      sub_limit_items ==
        SelectSeq(coverage_analysis.item_analysis, LAMBDA ia : ia.sub_limit_exceeded)
  IN   (IF total_rejected > 0 THEN <<Msg("not covered", total_rejected, "")>> ELSE <<>>)
    \o (IF total_copay > 0 THEN <<Msg("co-payment applies", total_copay, "")>> ELSE <<>>)
    \o (IF sub_limit_items # <<>>
          THEN <<Msg("Some items exceed sub-limits", 0, "")>> ELSE <<>>)
    \o (IF capped
          THEN <<Msg("Approved up to per-claim limit", per_claim_limit, "")>> ELSE <<>>)

Outcome(decision, approved_amount, reason, reason_parts) ==
  [ decision |-> decision, approved_amount |-> approved_amount,
    reason |-> reason, reason_parts |-> reason_parts ]

\* variant: the manual-review triggers are tested before the hard rejections
DecisionBranch_ReviewFirst(hard_rejection_issues, manual_review_reasons, essential_missing, total_claimed, total_approved, final_approved, partial_reasons) ==
  IF manual_review_reasons # <<>>
    THEN Outcome("MANUAL_REVIEW", total_approved,
                 Msg("Requires manual review", 0, ""), manual_review_reasons)
  ELSE IF hard_rejection_issues # <<>>
    THEN Outcome("REJECTED", 0, hard_rejection_issues[1].message, <<>>)
  ELSE IF essential_missing # <<>>
    THEN Outcome("REJECTED", 0,
                 Msg("Essential documents or information missing", 0, ""), <<>>)
  ELSE IF total_approved = 0 /\ total_claimed > 0
    THEN Outcome("REJECTED", 0, Msg("No items covered under policy", 0, ""), <<>>)
  ELSE IF partial_reasons # <<>> /\ final_approved > 0
    THEN Outcome("PARTIAL", final_approved, Msg("Partially approved", 0, ""),
                 partial_reasons)
  ELSE IF final_approved > 0
    THEN Outcome("APPROVED", final_approved,
                 Msg("Claim fully approved as per policy coverage", 0, ""), <<>>)
  ELSE Outcome("REJECTED", 0, Msg("Unable to process claim", 0, ""), <<>>)

\* variant: the rejection for missing essentials passes the approved total on
DecisionBranch_EssentialKeepsAmount(hard_rejection_issues, manual_review_reasons, essential_missing, total_claimed, total_approved, final_approved, partial_reasons) ==
  IF hard_rejection_issues # <<>>
    THEN Outcome("REJECTED", 0, hard_rejection_issues[1].message, <<>>)
  ELSE IF manual_review_reasons # <<>>
    THEN Outcome("MANUAL_REVIEW", total_approved,
                 Msg("Requires manual review", 0, ""), manual_review_reasons)
  ELSE IF essential_missing # <<>>
    THEN Outcome("REJECTED", total_approved,
                 Msg("Essential documents or information missing", 0, ""), <<>>)
  ELSE IF total_approved = 0 /\ total_claimed > 0
    THEN Outcome("REJECTED", 0, Msg("No items covered under policy", 0, ""), <<>>)
  ELSE IF partial_reasons # <<>> /\ final_approved > 0
    THEN Outcome("PARTIAL", final_approved, Msg("Partially approved", 0, ""),
                 partial_reasons)
  ELSE IF final_approved > 0
    THEN Outcome("APPROVED", final_approved,
                 Msg("Claim fully approved as per policy coverage", 0, ""), <<>>)
  ELSE Outcome("REJECTED", 0, Msg("Unable to process claim", 0, ""), <<>>)

\* variant: missing essentials are tested before the manual-review triggers
DecisionBranch_EssentialFirst(hard_rejection_issues, manual_review_reasons, essential_missing, total_claimed, total_approved, final_approved, partial_reasons) ==
  IF hard_rejection_issues # <<>>
    THEN Outcome("REJECTED", 0, hard_rejection_issues[1].message, <<>>)
  ELSE IF essential_missing # <<>>
    THEN Outcome("REJECTED", 0,
                 Msg("Essential documents or information missing", 0, ""), <<>>)
  ELSE IF manual_review_reasons # <<>>
    THEN Outcome("MANUAL_REVIEW", total_approved,
                 Msg("Requires manual review", 0, ""), manual_review_reasons)
  ELSE IF total_approved = 0 /\ total_claimed > 0
    THEN Outcome("REJECTED", 0, Msg("No items covered under policy", 0, ""), <<>>)
  ELSE IF partial_reasons # <<>> /\ final_approved > 0
    THEN Outcome("PARTIAL", final_approved, Msg("Partially approved", 0, ""),
                 partial_reasons)
  ELSE IF final_approved > 0
    THEN Outcome("APPROVED", final_approved,
                 Msg("Claim fully approved as per policy coverage", 0, ""), <<>>)
  ELSE Outcome("REJECTED", 0, Msg("Unable to process claim", 0, ""), <<>>)

\* the chain of returns of make_adjudication_decision, first match wins
DecisionBranch(hard_rejection_issues, manual_review_reasons, essential_missing, total_claimed, total_approved, final_approved, partial_reasons) ==
  IF hard_rejection_issues # <<>>
    THEN Outcome("REJECTED", 0, hard_rejection_issues[1].message, <<>>)
  ELSE IF manual_review_reasons # <<>>
    THEN Outcome("MANUAL_REVIEW", total_approved,
                 Msg("Requires manual review", 0, ""), manual_review_reasons)
  ELSE IF essential_missing # <<>>
    THEN Outcome("REJECTED", 0,
                 Msg("Essential documents or information missing", 0, ""), <<>>)
  ELSE IF total_approved = 0 /\ total_claimed > 0
    THEN Outcome("REJECTED", 0, Msg("No items covered under policy", 0, ""), <<>>)
  ELSE IF partial_reasons # <<>> /\ final_approved > 0
    THEN Outcome("PARTIAL", final_approved, Msg("Partially approved", 0, ""),
                 partial_reasons)
  ELSE IF final_approved > 0
    THEN Outcome("APPROVED", final_approved,
                 Msg("Claim fully approved as per policy coverage", 0, ""), <<>>)
  ELSE Outcome("REJECTED", 0, Msg("Unable to process claim", 0, ""), <<>>)

make_adjudication_decision(pol, claim, eligibility, doc_validation, coverage_verification, limit_validation, medical_necessity, coverage_analysis, fraud_detection, indicators) ==
  LET all_issues == CollectedIssues(eligibility, doc_validation, coverage_verification,
                                    limit_validation, medical_necessity)
      all_critical_issues == CriticalOf(all_issues)
      all_warnings == WarningsOf(all_issues)
      confidence_score ==
        _calculate_comprehensive_confidence(pol, claim, all_warnings, fraud_detection)
      total_claimed == claim.total_amount
      total_approved == coverage_analysis.total_approved
      manual_review_reasons ==
        ManualReviewReasons(pol, claim, confidence_score, fraud_detection)
      hard_rejection_issues ==
        SelectSeq(all_critical_issues, LAMBDA i : i.code \in rejection_codes)
      essential_missing ==
        SelectSeq(all_critical_issues,
                  LAMBDA i : i.code \in {"MISSING_DOCUMENT_TYPE", "MISSING_REQUIRED_FIELD"})
      limit_exceeded_issues ==
        SelectSeq(all_critical_issues,
                  LAMBDA i : i.code \in {"ANNUAL_LIMIT_EXCEEDED", "PER_CLAIM_EXCEEDED"})
      per_claim_limit == pol.coverage_details.per_claim_limit
      capped ==
        limit_exceeded_issues # <<>> /\ per_claim_limit # 0
        /\ total_approved > per_claim_limit
      final_approved == IF capped THEN per_claim_limit ELSE total_approved
      partial_reasons == PartialReasons(coverage_analysis, capped, per_claim_limit)
      o == DecisionBranch(hard_rejection_issues, manual_review_reasons,
                          essential_missing, total_claimed, total_approved,
                          final_approved, partial_reasons)
  IN _create_decision_output(pol, claim, o.decision, o.approved_amount,
                             all_critical_issues, all_warnings, confidence_score,
                             coverage_analysis, o.reason, o.reason_parts, indicators)

\* ------------------------------------------------------------------------
\* Inputs: policies, storage contents and merged claim records
\* ------------------------------------------------------------------------
Item(description, category, amount) ==
  [description |-> description, category |-> category, amount |-> amount]

ItemCatalog ==
  { Item("General Consultation", "consultation", 800),
    Item("General Consultation", "consultation", 1500),
    Item("Cosmetic Surgery", "consultation", 1500),
    Item("Blood Test", "diagnostic", 2000),
    Item("MRI Scan", "diagnostic", 4000),
    Item("Generic Paracetamol", "pharmacy", 500),
    Item("Branded Syrup", "pharmacy", 1000),
    Item("Root Canal", "dental", 3000),
    Item("Teeth Whitening", "dental", 1000),
    Item("Eye Exam", "vision", 6000),
    Item("Ayurveda Massage", "alternative_medicine", 900),
    Item("Ambulance", "transport", 700),
    Item("Blood Test", "diagnostic", 0) }

\* all item lists of at most MaxItems catalogue items
ItemLists == UNION { [1..n -> ItemCatalog] : n \in 0..MaxItems }

ItemsTotal(items) == SumSeq([k \in 1..Len(items) |-> items[k].amount])

BaseClaim ==
  [ claim_id |-> "CLM_1",
    patient_name |-> "Asha Rao",
    treatment_date |-> 200,
    claim_date |-> 200,
    document_types_submitted |-> <<"prescription", "medical_bill">>,
    items |-> <<Item("General Consultation", "consultation", 800)>>,
    total_amount |-> 800,
    policy_id |-> "POL1",
    member_id |-> "M1",
    doctor_registration |-> "KA/12345/2015",
    doctor_name |-> "Dr. Mehta",
    hospital_name |-> "City Clinic",
    diagnosis |-> "Viral Fever",
    pre_authorization_number |-> None ]

\* the row get_policy_utilization returns
Utilization(total, usage) == [total_approved_ytd |-> total, category_usage |-> usage]

NoUsage == [c \in Categories |-> 0]

Utilizations == { Utilization(0, NoUsage), Utilization(48000, NoUsage) }

\* policies that differ in how consultations and the categories are covered
CoveragePolicies ==
  { [BasePolicy EXCEPT
       !.coverage_details.consultation_fees.copay_percentage = cp,
       !.coverage_details.consultation_fees.sub_limit = IF limits THEN @ ELSE 0,
       !.coverage_details.diagnostic_tests.sub_limit = IF limits THEN @ ELSE 0,
       !.coverage_details.pharmacy.sub_limit = IF limits THEN @ ELSE 0,
       !.coverage_details.dental.sub_limit = IF limits THEN @ ELSE 0,
       !.coverage_details.alternative_medicine.sub_limit = IF limits THEN @ ELSE 0,
       !.coverage_details.consultation_fees.covered = cov,
       !.coverage_details.diagnostic_tests.covered = cov,
       !.coverage_details.pharmacy.covered = cov,
       !.coverage_details.dental.covered = cov,
       !.coverage_details.vision.covered = cov,
       !.coverage_details.alternative_medicine.covered = cov] :
      cp \in {0, 10, 100}, limits \in BOOLEAN, cov \in BOOLEAN }

\* policies that differ in the configured fraud thresholds
ThresholdPolicies ==
  { [BasePolicy EXCEPT
       !.fraud_detection.manual_review_threshold = mrt,
       !.fraud_detection.fraud_threshold = ft] :
      mrt \in {Unset, 100}, ft \in {Unset, 300} }

\* claims that differ in their line items only
CoverageClaims ==
  { [BaseClaim EXCEPT !.items = items, !.total_amount = ItemsTotal(items)] :
      items \in ItemLists }

ProviderInfo ==
  { [reg |-> "KA/12345/2015", doctor |-> "Dr. Mehta", hospital |-> "City Clinic"],
    [reg |-> "KA/12345/2015", doctor |-> "Dr. Mehta", hospital |-> None],
    [reg |-> None, doctor |-> None, hospital |-> None] }

DecisionItemLists ==
  { <<>>,
    <<Item("Generic Paracetamol", "pharmacy", 500)>>,
    <<Item("General Consultation", "consultation", 800)>>,
    <<Item("Cosmetic Surgery", "consultation", 1500)>>,
    <<Item("Experimental Therapy", "consultation", 800)>>,
    <<Item("Eye Exam", "vision", 6000)>> }

\* claims that differ in dates, member, documents, provider details and total
DecisionClaims ==
  { [BaseClaim EXCEPT
       !.treatment_date = td,
       !.claim_date = td + gap,
       !.member_id = m,
       !.document_types_submitted = docs,
       !.doctor_registration = info.reg,
       !.doctor_name = info.doctor,
       !.hospital_name = info.hospital,
       !.diagnosis = diag,
       !.items = items,
       !.total_amount = IF total = 0 THEN ItemsTotal(items) ELSE total] :
      td \in {95, 109, 200, 500}, gap \in {0, 45}, m \in {"M1", "MX"},
      docs \in {<<"prescription", "medical_bill">>, <<"medical_bill">>},
      info \in ProviderInfo, diag \in {Omitted, "Viral Fever"},
      items \in DecisionItemLists, total \in {0, 300, 30000} }

\* policies with and without an end date
EligibilityPolicies == { BasePolicy, [BasePolicy EXCEPT !.policy_end_date = NoDate] }

\* claims that differ in the treatment date and the member id, which may be absent
EligibilityClaims ==
  { [BaseClaim EXCEPT !.treatment_date = td, !.claim_date = td, !.member_id = m] :
      td \in {95, 109, 130, 500}, m \in {"M1", "MX", None} }

\* policies with and without pre-authorization for diagnostic tests
PreAuthPolicies ==
  { [BasePolicy EXCEPT !.coverage_details.diagnostic_tests.pre_authorization_required = b] :
      b \in BOOLEAN }

\* one-item claims with and without a pre-authorization number
PreAuthClaims ==
  { [BaseClaim EXCEPT !.items = <<item>>, !.total_amount = item.amount,
                      !.pre_authorization_number = number] :
      item \in { Item("MRI Scan", "diagnostic", 4000),
                 Item("Blood Test", "diagnostic", 2000),
                 Item("Doctor Consultation", "consultation", 800),
                 Item("General Consultation", "consultation", 800) },
      number \in {None, "PA-7"} }

\* the runs explored: a policy, the stored utilization and a claim
Setups ==
  (CoveragePolicies \X {Utilization(0, NoUsage)})
  \cup (ThresholdPolicies \X Utilizations)
  \cup (EligibilityPolicies \X {Utilization(0, NoUsage)})
  \cup (PreAuthPolicies \X {Utilization(0, NoUsage)})

Scenarios ==
  (CoveragePolicies \X {Utilization(0, NoUsage)} \X CoverageClaims)
  \cup (ThresholdPolicies \X Utilizations \X DecisionClaims)
  \cup (EligibilityPolicies \X {Utilization(0, NoUsage)} \X EligibilityClaims)
  \cup (PreAuthPolicies \X {Utilization(0, NoUsage)} \X PreAuthClaims)

\* ------------------------------------------------------------------------
\* Document extraction and merge
\* ------------------------------------------------------------------------
\* a local of process_claim_complete that is not assigned yet
Pending == [step |-> "pending"]

\* `if value` for an extracted scalar
Present(s) == s \notin {None, Omitted, ""}

DocTypes == {"prescription", "medical_bill", "pharmacy_bill", "lab_results",
             "diagnostic_report"}

\* merged['bill_totals'] before any bill total was recorded (the key is absent)
NoBillTotals == [medical_bill |-> Unset, pharmacy_bill |-> Unset]

ExtractedItem(description, category, amount) ==
  [description |-> description, category |-> category, amount |-> amount,
   source_document |-> None]

\* the JSON object of one document as the extraction model returned it; the
\* keys _merge_claim_data adds later are absent: empty lists, no bill totals
RawExtract(patient_name, diagnosis, doctor_name, hospital_name, items, total_amount) ==
  [ claim_id |-> None,
    patient_name |-> patient_name,
    diagnosis |-> diagnosis,
    doctor_name |-> doctor_name,
    hospital_name |-> hospital_name,
    items |-> items,
    total_amount |-> total_amount,
    prescription_items |-> <<>>,
    lab_results_items |-> <<>>,
    prescribed_medicines |-> <<>>,
    lab_tests |-> <<>>,
    bill_totals |-> NoBillTotals,
    documents_data |-> {} ]

AmountsTotal(items) == SumSeq([k \in 1..Len(items) |-> items[k].amount])

\* the end of extract_claim_data: a missing total_amount becomes the sum of the
\* item amounts, or 0 without items
extract_claim_data(raw) ==
  [raw EXCEPT !.total_amount = IF @ = Unset THEN AmountsTotal(raw.items) ELSE @]

BillTotalsSum(bill_totals) ==
    (IF bill_totals.medical_bill = Unset THEN 0 ELSE bill_totals.medical_bill)
  + (IF bill_totals.pharmacy_bill = Unset THEN 0 ELSE bill_totals.pharmacy_bill)

\* item['source_document'] = doc_type for every item of the new document
Tagged(items, doc_type) ==
  [k \in 1..Len(items) |-> [items[k] EXCEPT !.source_document = doc_type]]

\* _merge_claim_data: the first document is returned as it is; documents_data
\* is modelled by its keys, the extract under a key being that document's
_merge_claim_data(existing_data, new_data, doc_type) ==
  IF existing_data = Pending
    THEN new_data
  ELSE
    LET items == Tagged(new_data.items, doc_type)
        reference == doc_type \in {"prescription", "lab_results"}
        bill_totals ==
          IF doc_type \in {"medical_bill", "pharmacy_bill"} /\ new_data.total_amount # 0
            THEN [existing_data.bill_totals EXCEPT ![doc_type] = new_data.total_amount]
            ELSE existing_data.bill_totals
        merged_items ==
          IF reference THEN existing_data.items
          ELSE existing_data.items \o SelectSeq(items, LAMBDA i : i.amount > 0)
    IN [ existing_data EXCEPT
           !.patient_name = IF Present(new_data.patient_name) /\ ~Present(@)
                              THEN new_data.patient_name ELSE @,
           !.items = merged_items,
           !.prescription_items = IF doc_type = "prescription" THEN @ \o items ELSE @,
           !.lab_results_items = IF doc_type = "lab_results" THEN @ \o items ELSE @,
           !.doctor_name = IF doc_type = "prescription" /\ Present(new_data.doctor_name)
                             THEN new_data.doctor_name ELSE @,
           !.hospital_name = IF doc_type = "medical_bill" /\ Present(new_data.hospital_name)
                               THEN new_data.hospital_name ELSE @,
           !.diagnosis = IF doc_type = "prescription" /\ new_data.diagnosis # Omitted
                           THEN new_data.diagnosis ELSE @,
           !.prescribed_medicines = IF doc_type = "prescription" THEN items ELSE @,
           !.lab_tests = IF doc_type = "lab_results" THEN items ELSE @,
           !.bill_totals = bill_totals,
           !.total_amount =
              IF bill_totals # NoBillTotals THEN BillTotalsSum(bill_totals)
              ELSE IF merged_items # <<>> THEN AmountsTotal(merged_items)
              ELSE @,
           !.documents_data = @ \cup {doc_type} ]

\* the loop of process_claim_complete over file_paths.items(): the documents
\* are merged in the order the caller supplied them
RECURSIVE MergeInOrder(_, _, _)
MergeInOrder(claim, order, extracts) ==
  IF order = <<>> THEN claim
  ELSE MergeInOrder(_merge_claim_data(claim, extracts[Head(order)], Head(order)),
                    Tail(order), extracts)

\* ------------------------------------------------------------------------
\* State
\* ------------------------------------------------------------------------
VARIABLES
  policy,                 \* self.policy
  db,                     \* the storage collaborator's contents
  fraud_indicators,       \* self.fraud_indicators
  pc,                     \* position of process_claim_complete
  claim_data,             \* the merged claim record
  eligibility,            \* the step results held by process_claim_complete
  doc_validation,
  coverage_verification,
  coverage_analysis,
  limit_validation,
  medical_necessity,
  fraud_detection,
  final_decision,
  file_paths,             \* the document types of the call, in the caller's order
  extracted,              \* what extract_claim_data returns for each document
  all_documents_text,     \* the document types read and merged so far
  llm_reply,              \* how the necessity reviewer answered in this run
  error,                  \* the exception process_claim_complete ended with
  evaluations             \* the locals of two calls sharing one ClaimProcessor

vars == <<policy, db, fraud_indicators, pc, claim_data, eligibility, doc_validation,
          coverage_verification, coverage_analysis, limit_validation,
          medical_necessity, fraud_detection, final_decision,
          file_paths, extracted, all_documents_text, llm_reply, error, evaluations>>

\* the state of the document loop
merge_vars == <<file_paths, extracted, all_documents_text>>

\* no exception was raised
NoError == [raised |-> FALSE, stage |-> "", detail |-> "", audit_failed |-> FALSE]

results == <<eligibility, doc_validation, coverage_verification, coverage_analysis,
             limit_validation, medical_necessity, fraud_detection, final_decision>>

AuditEntry(claim_id, action) == [claim_id |-> claim_id, action |-> action]

\* what the necessity reviewer may answer: necessary, necessary with a
\* warning, not necessary, or no usable answer (the fallback dict)
LlmAssessments ==
  { [is_necessary |-> TRUE, reason |-> Msg("Treatment is appropriate", 0, ""),
     warnings |-> <<>>],
    [is_necessary |-> TRUE, reason |-> Msg("Treatment is appropriate", 0, ""),
     warnings |-> <<Msg("Dosage unusually high", 0, "")>>],
    [is_necessary |-> FALSE, reason |-> Msg("Diagnosis does not justify treatment", 0, ""),
     warnings |-> <<>>],
    LlmFallback }

\* ClaimProcessor.__init__: the policy is loaded, no indicators are held
Init ==
  /\ \E sc \in Setups :
        /\ policy = sc[1]
        /\ db = [ members |-> {"M1"},
                  utilization |-> sc[2],
                  claims_ytd |-> sc[2].total_approved_ytd,
                  claims |-> <<>>,
                  issues |-> <<>>,
                  items |-> <<>>,
                  fraud_indicators |-> <<>>,
                  audit |-> <<>> ]
  /\ fraud_indicators = <<>>
  /\ pc = "idle"
  /\ claim_data = Pending
  /\ eligibility = Pending
  /\ doc_validation = Pending
  /\ coverage_verification = Pending
  /\ coverage_analysis = Pending
  /\ limit_validation = Pending
  /\ medical_necessity = Pending
  /\ fraud_detection = Pending
  /\ final_decision = Pending
  /\ file_paths = <<>>
  /\ extracted = <<>>
  /\ all_documents_text = <<>>
  /\ llm_reply = "not asked"
  /\ error = NoError
  /\ evaluations = <<>>

\* process_claim_complete up to the stored document uploads: the documents are
\* read, extracted and merged, the claim row and the CREATED audit entry written
BeginClaim ==
  /\ pc = "idle"
  /\ \E sc \in Scenarios :
        /\ sc[1] = policy
        /\ sc[2] = db.utilization
        /\ claim_data' = sc[3]
        /\ db' = [db EXCEPT
                    !.claims = Append(@, [claim_id |-> sc[3].claim_id,
                                          decision |-> "PENDING",
                                          approved_amount |-> 0]),
                    !.audit = Append(@, AuditEntry(sc[3].claim_id, "CREATED"))]
  /\ pc' = "eligibility"
  /\ UNCHANGED <<policy, fraud_indicators, results>>
  /\ UNCHANGED <<merge_vars, llm_reply, error, evaluations>>

\* create_adjudication_issues, called only for a non-empty list
StoreIssues(d, issues) == [d EXCEPT !.issues = @ \o issues]

Eligibility ==
  /\ pc = "eligibility"
  /\ LET r == check_basic_eligibility(policy, claim_data, db.members)
     IN /\ eligibility' = r
        /\ db' = StoreIssues(db, r.issues)
  /\ pc' = "document_validation"
  /\ UNCHANGED <<policy, fraud_indicators, claim_data, doc_validation,
                 coverage_verification, coverage_analysis, limit_validation,
                 medical_necessity, fraud_detection, final_decision>>
  /\ UNCHANGED <<merge_vars, llm_reply, error, evaluations>>

DocumentValidation ==
  /\ pc = "document_validation"
  /\ ~ValidateDocumentsRaises(claim_data)
  /\ LET r == validate_documents(policy, claim_data)
     IN /\ doc_validation' = r
        /\ db' = StoreIssues(db, r.issues)
  /\ pc' = "coverage_verification"
  /\ UNCHANGED <<policy, fraud_indicators, claim_data, eligibility,
                 coverage_verification, coverage_analysis, limit_validation,
                 medical_necessity, fraud_detection, final_decision>>
  /\ UNCHANGED <<merge_vars, llm_reply, error, evaluations>>

CoverageVerification ==
  /\ pc = "coverage_verification"
  /\ ~VerifyCoverageRaises(claim_data)
  /\ LET r == verify_coverage(policy, claim_data)
     IN /\ coverage_verification' = r
        /\ db' = StoreIssues(db, r.issues)
  /\ pc' = "coverage_analysis"
  /\ UNCHANGED <<policy, fraud_indicators, claim_data, eligibility, doc_validation,
                 coverage_analysis, limit_validation,
                 medical_necessity, fraud_detection, final_decision>>
  /\ UNCHANGED <<merge_vars, llm_reply, error, evaluations>>

\* analyze_coverage and create_claim_items; the semantic test matcher answers
\* for the items that reach it
CoverageAnalysis ==
  /\ pc = "coverage_analysis"
  /\ \E llm \in [1..Len(claim_data.items) -> BOOLEAN] :
        /\ \A i \in 1..Len(claim_data.items) :
              llm[i] => AsksTestMatcher(policy, claim_data.items[i])
        /\ LET r == analyze_coverage(policy, claim_data.items, llm)
           IN /\ coverage_analysis' = r
              /\ db' = [db EXCEPT !.items = @ \o r.item_analysis]
  /\ pc' = "limit_validation"
  /\ UNCHANGED <<policy, fraud_indicators, claim_data, eligibility, doc_validation,
                 coverage_verification, limit_validation,
                 medical_necessity, fraud_detection, final_decision>>
  /\ UNCHANGED <<merge_vars, llm_reply, error, evaluations>>

LimitValidation ==
  /\ pc = "limit_validation"
  /\ LET r == validate_limits(policy, claim_data, coverage_analysis, db.utilization)
     IN /\ limit_validation' = r
        /\ db' = StoreIssues(db, r.issues)
  /\ pc' = "medical_necessity"
  /\ UNCHANGED <<policy, fraud_indicators, claim_data, eligibility, doc_validation,
                 coverage_verification, coverage_analysis,
                 medical_necessity, fraud_detection, final_decision>>
  /\ UNCHANGED <<merge_vars, llm_reply, error, evaluations>>

\* the necessity reviewer is asked only when a diagnosis and items are present
NecessityAsked(claim) == Truthy(claim.diagnosis) /\ claim.items # <<>>

MedicalNecessity ==
  /\ pc = "medical_necessity"
  /\ \E a \in LlmAssessments :
        /\ ~NecessityAsked(claim_data) => a = LlmFallback
        /\ llm_reply' = IF ~NecessityAsked(claim_data) THEN "not asked"
                        ELSE IF a = LlmFallback THEN "failed" ELSE "answered"
        /\ LET r == review_medical_necessity(policy, claim_data, a)
           IN /\ medical_necessity' = r
              /\ db' = StoreIssues(db, r.issues)
  /\ pc' = "fraud_detection"
  /\ UNCHANGED <<policy, fraud_indicators, claim_data, eligibility, doc_validation,
                 coverage_verification, coverage_analysis, limit_validation,
                 fraud_detection, final_decision>>
  /\ UNCHANGED <<merge_vars, error, evaluations>>

\* total_amount / high_value_threshold raises ZeroDivisionError
DividesByZero(pol, claim) ==
  LET high_value_threshold ==
        Get(pol.fraud_detection.high_value_threshold, DefaultHighValueThreshold)
  IN high_value_threshold = 0 /\ claim.total_amount > high_value_threshold

FraudDetection ==
  /\ pc = "fraud_detection"
  /\ ~DividesByZero(policy, claim_data)
  /\ LET r == detect_fraud_indicators(policy, claim_data)
     IN /\ fraud_detection' = r
        /\ fraud_indicators' = r.indicators
        /\ db' = [db EXCEPT !.fraud_indicators = @ \o r.indicators]
  /\ pc' = "decision"
  /\ UNCHANGED <<policy, claim_data, eligibility, doc_validation,
                 coverage_verification, coverage_analysis, limit_validation,
                 medical_necessity, final_decision>>
  /\ UNCHANGED <<merge_vars, llm_reply, error, evaluations>>

\* variant: the decision is made and audited, update_claim_decision is not called
Decision_NotStored ==
  /\ pc = "decision"
  /\ LET d == make_adjudication_decision(policy, claim_data, eligibility,
                 doc_validation, coverage_verification, limit_validation,
                 medical_necessity, coverage_analysis, fraud_detection,
                 fraud_indicators)
     IN /\ final_decision' = d
        /\ db' = [db EXCEPT
                    !.audit = Append(@, AuditEntry(claim_data.claim_id, d.decision)),
                    !.claims_ytd =
                       IF d.decision = "APPROVED" /\ Truthy(claim_data.policy_id)
                         THEN @ + d.approved_amount ELSE @]
  /\ pc' = "done"
  /\ UNCHANGED <<policy, fraud_indicators, claim_data, eligibility, doc_validation,
                 coverage_verification, coverage_analysis, limit_validation,
                 medical_necessity, fraud_detection>>
  /\ UNCHANGED <<merge_vars, llm_reply, error, evaluations>>

\* make_adjudication_decision, update_claim_decision, the decision's audit
\* entry and update_policy_claims_ytd for an APPROVED claim with a policy id
Decision ==
  /\ pc = "decision"
  /\ LET d == make_adjudication_decision(policy, claim_data, eligibility,
                 doc_validation, coverage_verification, limit_validation,
                 medical_necessity, coverage_analysis, fraud_detection,
                 fraud_indicators)
     IN /\ final_decision' = d
        /\ db' = [db EXCEPT
                    !.claims = [k \in 1..Len(@) |->
                                  IF @[k].claim_id = claim_data.claim_id
                                    THEN [@[k] EXCEPT !.decision = d.decision,
                                                      !.approved_amount = d.approved_amount]
                                    ELSE @[k]],
                    !.audit = Append(@, AuditEntry(claim_data.claim_id, d.decision)),
                    !.claims_ytd =
                       IF d.decision = "APPROVED" /\ Truthy(claim_data.policy_id)
                         THEN @ + d.approved_amount ELSE @]
  /\ pc' = "done"
  /\ UNCHANGED <<policy, fraud_indicators, claim_data, eligibility, doc_validation,
                 coverage_verification, coverage_analysis, limit_validation,
                 medical_necessity, fraud_detection>>
  /\ UNCHANGED <<merge_vars, llm_reply, error, evaluations>>

Next ==
  \/ BeginClaim
  \/ Eligibility
  \/ DocumentValidation
  \/ CoverageVerification
  \/ CoverageAnalysis
  \/ LimitValidation
  \/ MedicalNecessity
  \/ FraudDetection
  \/ Decision

Spec == Init /\ [][Next]_vars

\* ------------------------------------------------------------------------
\* The document loop of process_claim_complete
\* ------------------------------------------------------------------------
\* what the extraction model may return for a document of each type
ExtractCatalog ==
  [ prescription |->
      { RawExtract("Asha Rao", "Viral Fever", "Dr. Mehta", None,
                   <<ExtractedItem("Paracetamol 500mg", "pharmacy", 0)>>, Unset),
        RawExtract(None, None, Omitted, Omitted, <<>>, Unset) },
    medical_bill |->
      { RawExtract("Asha Rao", Omitted, None, "City Clinic",
                   <<ExtractedItem("General Consultation", "consultation", 800)>>, 800),
        RawExtract("A. Rao", "Fever", None, None,
                   <<ExtractedItem("Doctor Visit", "consultation", 800),
                     ExtractedItem("Registration", "consultation", 0)>>, 1000) },
    pharmacy_bill |->
      { RawExtract("A. Rao", Omitted, Omitted, Omitted,
                   <<ExtractedItem("Branded Syrup", "pharmacy", 500)>>, 500),
        RawExtract(None, Omitted, Omitted, Omitted,
                   <<ExtractedItem("Generic Tablet", "pharmacy", 300)>>, Unset) },
    lab_results |->
      { RawExtract("Asha Rao", Omitted, Omitted, Omitted,
                   <<ExtractedItem("Hemoglobin", "diagnostic", 0)>>, Unset),
        RawExtract(None, Omitted, Omitted, Omitted,
                   <<ExtractedItem("Blood Test", "diagnostic", 2000)>>, 2000) },
    diagnostic_report |->
      { RawExtract(None, Omitted, Omitted, Omitted,
                   <<ExtractedItem("X-Ray", "diagnostic", 600)>>, 600) } ]

\* the orders in which a caller may supply up to MaxDocs documents of distinct types
ArrivalOrders ==
  { order \in UNION { [1..n -> DocTypes] : n \in 1..MaxDocs } :
      \A i, j \in 1..Len(order) : i # j => order[i] # order[j] }

\* the extracts of the documents of one call
ExtractsOf(order) ==
  { f \in [ {order[k] : k \in 1..Len(order)} -> UNION {ExtractCatalog[t] : t \in DocTypes} ] :
      \A t \in DOMAIN f : f[t] \in ExtractCatalog[t] }

InitMerge ==
  /\ policy = BasePolicy
  /\ db = [ members |-> {"M1"}, utilization |-> Utilization(0, NoUsage), claims_ytd |-> 0,
            claims |-> <<>>, issues |-> <<>>, items |-> <<>>, fraud_indicators |-> <<>>,
            audit |-> <<>> ]
  /\ fraud_indicators = <<>>
  /\ pc = "extracting"
  /\ claim_data = Pending
  /\ eligibility = Pending
  /\ doc_validation = Pending
  /\ coverage_verification = Pending
  /\ coverage_analysis = Pending
  /\ limit_validation = Pending
  /\ medical_necessity = Pending
  /\ fraud_detection = Pending
  /\ final_decision = Pending
  /\ \E order \in ArrivalOrders :
        /\ file_paths = order
        /\ \E raw \in ExtractsOf(order) :
              extracted = [t \in DOMAIN raw |-> extract_claim_data(raw[t])]
  /\ all_documents_text = <<>>
  /\ llm_reply = "not asked"
  /\ error = NoError
  /\ evaluations = <<>>

\* one round of the loop: the next document is read, extracted and merged
MergeDocument ==
  /\ pc = "extracting"
  /\ Len(all_documents_text) < Len(file_paths)
  /\ LET doc_type == file_paths[Len(all_documents_text) + 1]
     IN /\ claim_data' = _merge_claim_data(claim_data, extracted[doc_type], doc_type)
        /\ all_documents_text' = Append(all_documents_text, doc_type)
  /\ UNCHANGED <<policy, db, fraud_indicators, pc, results, file_paths, extracted,
                 llm_reply, error, evaluations>>

\* after the loop: the claim id is generated, whatever the extraction returned
AssignClaimId ==
  /\ pc = "extracting"
  /\ Len(all_documents_text) = Len(file_paths)
  /\ claim_data' = [claim_data EXCEPT !.claim_id = "CLM_1"]
  /\ pc' = "merged"
  /\ UNCHANGED <<policy, db, fraud_indicators, results, merge_vars, llm_reply, error,
                 evaluations>>

NextMerge ==
  \/ MergeDocument
  \/ AssignClaimId

SpecMerge == InitMerge /\ [][NextMerge]_vars

\* ------------------------------------------------------------------------
\* Two calls of process_claim_complete on one ClaimProcessor
\* ------------------------------------------------------------------------
Callers == {1, 2}

\* claims that differ in what the fraud detector finds
SharedClaims ==
  { [BaseClaim EXCEPT !.hospital_name = h, !.total_amount = total] :
      h \in {"City Clinic", None}, total \in {800, 30000} }

\* the locals of one call before its first stage
StartOfCall(claim) ==
  [ pc |-> "stages", claim_data |-> claim, eligibility |-> Pending,
    doc_validation |-> Pending, coverage_verification |-> Pending,
    coverage_analysis |-> Pending, limit_validation |-> Pending,
    medical_necessity |-> Pending, fraud_detection |-> Pending,
    final_decision |-> Pending ]

InitShared ==
  /\ policy = BasePolicy
  /\ db = [ members |-> {"M1"}, utilization |-> Utilization(0, NoUsage), claims_ytd |-> 0,
            claims |-> <<>>, issues |-> <<>>, items |-> <<>>, fraud_indicators |-> <<>>,
            audit |-> <<>> ]
  /\ fraud_indicators = <<>>
  /\ pc = "serving"
  /\ claim_data = Pending
  /\ eligibility = Pending
  /\ doc_validation = Pending
  /\ coverage_verification = Pending
  /\ coverage_analysis = Pending
  /\ limit_validation = Pending
  /\ medical_necessity = Pending
  /\ fraud_detection = Pending
  /\ final_decision = Pending
  /\ file_paths = <<>>
  /\ extracted = <<>>
  /\ all_documents_text = <<>>
  /\ llm_reply = "not asked"
  /\ error = NoError
  /\ \E c1, c2 \in SharedClaims :
        evaluations = [e \in Callers |->
                         StartOfCall([(IF e = 1 THEN c1 ELSE c2) EXCEPT
                                        !.claim_id = IF e = 1 THEN "CLM_1" ELSE "CLM_2"])]

\* the call of caller e up to step 5: none of these stages reads or writes
\* self.fraud_indicators
StagesBeforeFraud(e) ==
  /\ evaluations[e].pc = "stages"
  /\ \E a \in LlmAssessments :
        LET claim == evaluations[e].claim_data
            elig == check_basic_eligibility(policy, claim, db.members)
            docs == validate_documents(policy, claim)
            cover == verify_coverage(policy, claim)
            analysis == analyze_coverage(policy, claim.items,
                                         [k \in 1..Len(claim.items) |-> FALSE])
            limits == validate_limits(policy, claim, analysis, db.utilization)
            necessity == review_medical_necessity(policy, claim, a)
        IN /\ ~NecessityAsked(claim) => a = LlmFallback
           /\ evaluations' =
                [evaluations EXCEPT ![e] =
                   [@ EXCEPT !.pc = "fraud_detection",
                             !.eligibility = elig,
                             !.doc_validation = docs,
                             !.coverage_verification = cover,
                             !.coverage_analysis = analysis,
                             !.limit_validation = limits,
                             !.medical_necessity = necessity]]
           /\ db' = [db EXCEPT
                       !.claims = Append(@, [claim_id |-> claim.claim_id,
                                             decision |-> "PENDING",
                                             approved_amount |-> 0]),
                       !.audit = Append(@, AuditEntry(claim.claim_id, "CREATED")),
                       !.issues = @ \o elig.issues \o docs.issues \o cover.issues
                                    \o limits.issues \o necessity.issues,
                       !.items = @ \o analysis.item_analysis]
  /\ UNCHANGED <<policy, fraud_indicators, pc, claim_data, results, merge_vars,
                 llm_reply, error>>

\* step 6 of caller e: the indicators are returned and stored on the object
FraudDetectionOf(e) ==
  /\ evaluations[e].pc = "fraud_detection"
  /\ LET r == detect_fraud_indicators(policy, evaluations[e].claim_data)
     IN /\ evaluations' = [evaluations EXCEPT ![e] =
                             [@ EXCEPT !.pc = "decision", !.fraud_detection = r]]
        /\ fraud_indicators' = r.indicators
        /\ db' = [db EXCEPT !.fraud_indicators = @ \o r.indicators]
  /\ UNCHANGED <<policy, pc, claim_data, results, merge_vars, llm_reply, error>>

\* step 7 of caller e: the decision record is built from the locals of the
\* call and from the indicators held by the object
DecisionOf(e) ==
  /\ evaluations[e].pc = "decision"
  /\ LET ev == evaluations[e]
         d == make_adjudication_decision(policy, ev.claim_data, ev.eligibility,
                 ev.doc_validation, ev.coverage_verification, ev.limit_validation,
                 ev.medical_necessity, ev.coverage_analysis, ev.fraud_detection,
                 fraud_indicators)
     IN /\ evaluations' = [evaluations EXCEPT ![e] =
                             [@ EXCEPT !.pc = "done", !.final_decision = d]]
        /\ db' = [db EXCEPT
                    !.claims = [k \in 1..Len(@) |->
                                  IF @[k].claim_id = ev.claim_data.claim_id
                                    THEN [@[k] EXCEPT !.decision = d.decision,
                                                      !.approved_amount = d.approved_amount]
                                    ELSE @[k]],
                    !.audit = Append(@, AuditEntry(ev.claim_data.claim_id, d.decision)),
                    !.claims_ytd =
                       IF d.decision = "APPROVED" /\ Truthy(ev.claim_data.policy_id)
                         THEN @ + d.approved_amount ELSE @]
  /\ UNCHANGED <<policy, fraud_indicators, pc, claim_data, results, merge_vars,
                 llm_reply, error>>

NextShared ==
  \E e \in Callers :
     \/ StagesBeforeFraud(e)
     \/ FraudDetectionOf(e)
     \/ DecisionOf(e)

SpecShared == InitShared /\ [][NextShared]_vars

\* ------------------------------------------------------------------------
\* process_claim_complete with failing collaborators and colliding claim ids
\* ------------------------------------------------------------------------
\* the ids the generator (timestamp and random suffix) may produce
GeneratedIds == {"CLM_0", "CLM_1", "CLM_2"}

\* the claim that is in storage before the call
StoredClaimId == "CLM_0"

StoredIds(d) == {d.claims[k].claim_id : k \in 1..Len(d.claims)}

\* a policy for which every claim is a high-value claim
ZeroThresholdPolicy == [BasePolicy EXCEPT !.fraud_detection.high_value_threshold = 0]

\* a policy with six critical fields
ManyFieldsPolicy ==
  [BasePolicy EXCEPT !.fraud_detection.critical_fields =
     <<"doctor_registration", "hospital_name", "doctor_name", "diagnosis",
       "pre_authorization_number", "patient_name">>]

FailurePolicies == {BasePolicy, ZeroThresholdPolicy, ManyFieldsPolicy}

FailureClaims ==
  { [BaseClaim EXCEPT
       !.doctor_registration = info.reg,
       !.doctor_name = info.doctor,
       !.hospital_name = info.hospital,
       !.diagnosis = diag,
       !.patient_name = name,
       !.items = IF total = 0 THEN <<>> ELSE @,
       !.total_amount = total] :
      info \in ProviderInfo, diag \in {None, Omitted, "Viral Fever"},
      name \in {"Asha Rao", None, Omitted}, total \in {0, 800, 40000} }

\* the row of the policies table that get_policy_by_number finds for the
\* policy number "PN-2": another policy than the one the processor loaded
StoredPolicy ==
  [ policy_id |-> "POL2",
    policy_config |-> [BasePolicy EXCEPT !.policy_id = "POL2",
                                         !.coverage_details.per_claim_limit = 500] ]

\* no row
NoPolicy == [policy_id |-> None, policy_config |-> None]

get_policy_by_number(policy_number) == IF policy_number = "PN-2" THEN StoredPolicy ELSE NoPolicy

Raised(stage, detail) ==
  [raised |-> TRUE, stage |-> stage, detail |-> detail, audit_failed |-> FALSE]

InitFailure ==
  /\ policy \in FailurePolicies
  /\ db = [ members |-> {"M1"}, utilization |-> Utilization(0, NoUsage), claims_ytd |-> 0,
            claims |-> <<[claim_id |-> StoredClaimId, decision |-> "APPROVED",
                          approved_amount |-> 500]>>,
            issues |-> <<>>, items |-> <<>>, fraud_indicators |-> <<>>,
            audit |-> <<AuditEntry(StoredClaimId, "CREATED"),
                        AuditEntry(StoredClaimId, "APPROVED")>> ]
  /\ fraud_indicators = <<>>
  /\ pc = "idle"
  /\ claim_data = Pending
  /\ eligibility = Pending
  /\ doc_validation = Pending
  /\ coverage_verification = Pending
  /\ coverage_analysis = Pending
  /\ limit_validation = Pending
  /\ medical_necessity = Pending
  /\ fraud_detection = Pending
  /\ final_decision = Pending
  /\ file_paths = <<>>
  /\ extracted = <<>>
  /\ all_documents_text = <<>>
  /\ llm_reply = "not asked"
  /\ error = NoError
  /\ evaluations = <<>>

\* process_claim_complete up to the stored document uploads.  The extraction
\* may leave a claim_id in the merged data; the generated id replaces it; one
\* lookup, whose own failure is swallowed, guards the id and a colliding id is
\* regenerated once and not looked up again.  Whether the claims table rejects
\* a second row with a stored claim_id is a property of the schema (unique).
BeginClaimChecked ==
  /\ pc = "idle"
  /\ \E extract \in FailureClaims, original_claim_id \in {None, StoredClaimId},
        policy_id \in {None, "POL1"}, policy_number \in {Omitted, "PN-2"},
        first_id \in GeneratedIds, second_id \in GeneratedIds,
        lookup_raises \in BOOLEAN, unique \in BOOLEAN,
        fault \in {"none", "extraction", "create_claim", "log_audit", "document_upload"} :
        LET found == IF ~Truthy(policy_id) /\ Truthy(policy_number)
                       THEN get_policy_by_number(policy_number) ELSE NoPolicy
            claim == [extract EXCEPT !.policy_id =
                        IF Truthy(policy_id) THEN policy_id
                        ELSE IF found # NoPolicy THEN found.policy_id ELSE Omitted]
            existing_claim == ~lookup_raises /\ first_id \in StoredIds(db)
            claim_id == IF existing_claim THEN second_id ELSE first_id
            row == [claim_id |-> claim_id, decision |-> "PENDING", approved_amount |-> 0]
        IN /\ CASE fault = "extraction" ->
                  /\ claim_data' = [extract EXCEPT !.claim_id = original_claim_id]
                  /\ db' = db
                  /\ error' = Raised("extraction", "ValueError")
                  /\ pc' = "except"
             [] fault # "extraction" /\ claim.patient_name = Omitted ->
                  /\ claim_data' = [claim EXCEPT !.claim_id = claim_id]
                  /\ db' = db
                  /\ error' = Raised("create_claim", "KeyError")
                  /\ pc' = "except"
             [] /\ fault # "extraction"
                /\ claim.patient_name # Omitted
                /\ fault = "create_claim" \/ (unique /\ claim_id \in StoredIds(db)) ->
                  /\ claim_data' = [claim EXCEPT !.claim_id = claim_id]
                  /\ db' = db
                  /\ error' = Raised("create_claim", "storage error")
                  /\ pc' = "except"
             [] OTHER ->
                  /\ claim_data' = [claim EXCEPT !.claim_id = claim_id]
                  /\ db' = [db EXCEPT
                              !.claims = Append(@, row),
                              !.audit = IF fault = "log_audit" THEN @
                                        ELSE Append(@, AuditEntry(claim_id, "CREATED"))]
                  /\ error' = IF fault = "none" THEN error ELSE Raised(fault, "storage error")
                  /\ pc' = IF fault = "none" THEN "eligibility" ELSE "except"
           /\ policy' = IF fault # "extraction" /\ found # NoPolicy
                          THEN found.policy_config ELSE policy
  /\ UNCHANGED <<fraud_indicators, results>>
  /\ UNCHANGED <<merge_vars, llm_reply, evaluations>>

StageNames ==
  {"eligibility", "document_validation", "coverage_verification", "coverage_analysis",
   "limit_validation", "medical_necessity", "fraud_detection"}

\* a stage, or the storage call that follows it, raises: the failed statement
\* is rolled back and nothing of the stage is written
StageFails ==
  /\ pc \in StageNames
  /\ error' = Raised(pc, "storage error")
  /\ pc' = "except"
  /\ UNCHANGED <<policy, db, fraud_indicators, claim_data, results>>
  /\ UNCHANGED <<merge_vars, llm_reply, evaluations>>

\* validate_documents strips a patient_name that is null
DocumentValidationRaises ==
  /\ pc = "document_validation"
  /\ ValidateDocumentsRaises(claim_data)
  /\ error' = Raised(pc, "AttributeError")
  /\ pc' = "except"
  /\ UNCHANGED <<policy, db, fraud_indicators, claim_data, results>>
  /\ UNCHANGED <<merge_vars, llm_reply, evaluations>>

\* verify_coverage lower-cases a diagnosis that is null
CoverageVerificationRaises ==
  /\ pc = "coverage_verification"
  /\ VerifyCoverageRaises(claim_data)
  /\ error' = Raised(pc, "AttributeError")
  /\ pc' = "except"
  /\ UNCHANGED <<policy, db, fraud_indicators, claim_data, results>>
  /\ UNCHANGED <<merge_vars, llm_reply, evaluations>>

\* review_medical_necessity reads llm_assessment['is_necessary'] of a reply
\* that parsed as JSON and has no such field
NecessityKeyError ==
  /\ pc = "medical_necessity"
  /\ NecessityAsked(claim_data)
  /\ llm_reply' = "no is_necessary"
  /\ error' = Raised(pc, "KeyError")
  /\ pc' = "except"
  /\ UNCHANGED <<policy, db, fraud_indicators, claim_data, results>>
  /\ UNCHANGED <<merge_vars, evaluations>>

\* detect_fraud_indicators divides by a high_value_threshold of 0
FraudDetectionDivides ==
  /\ pc = "fraud_detection"
  /\ DividesByZero(policy, claim_data)
  /\ error' = Raised(pc, "ZeroDivisionError")
  /\ pc' = "except"
  /\ UNCHANGED <<policy, db, fraud_indicators, claim_data, results>>
  /\ UNCHANGED <<merge_vars, llm_reply, evaluations>>

\* the decision is made and one of the three storage calls after it raises:
\* update_claim_decision (1), the decision's audit entry (2),
\* update_policy_claims_ytd (3)
DecisionFails ==
  /\ pc = "decision"
  /\ LET d == make_adjudication_decision(policy, claim_data, eligibility,
                 doc_validation, coverage_verification, limit_validation,
                 medical_necessity, coverage_analysis, fraud_detection,
                 fraud_indicators)
     IN \E failing \in 1..3 :
          /\ failing = 3 => d.decision = "APPROVED" /\ Truthy(claim_data.policy_id)
          /\ db' = [db EXCEPT
                      !.claims = [k \in 1..Len(@) |->
                                    IF failing > 1 /\ @[k].claim_id = claim_data.claim_id
                                      THEN [@[k] EXCEPT !.decision = d.decision,
                                                        !.approved_amount = d.approved_amount]
                                      ELSE @[k]],
                      !.audit = IF failing > 2
                                  THEN Append(@, AuditEntry(claim_data.claim_id, d.decision))
                                  ELSE @]
  /\ error' = Raised(pc, "storage error")
  /\ pc' = "except"
  /\ UNCHANGED <<policy, fraud_indicators, claim_data, results>>
  /\ UNCHANGED <<merge_vars, llm_reply, evaluations>>

\* the except clause of process_claim_complete: with a claim_id in claim_data
\* the claim is looked up and, when a row is found, an ERROR audit entry is
\* written under that id; a failure of either call is swallowed; the error is
\* raised again
HandleError ==
  /\ pc = "except"
  /\ \E lookup_ok \in BOOLEAN, audit_ok \in BOOLEAN :
        LET claim_id == claim_data.claim_id
            existing_claim == Truthy(claim_id) /\ lookup_ok /\ claim_id \in StoredIds(db)
        IN /\ ~Truthy(claim_id) => lookup_ok /\ audit_ok
           /\ ~existing_claim /\ lookup_ok => audit_ok
           /\ db' = IF existing_claim /\ audit_ok
                      THEN [db EXCEPT !.audit = Append(@, AuditEntry(claim_id, "ERROR"))]
                      ELSE db
           /\ error' = [error EXCEPT !.audit_failed = ~(lookup_ok /\ audit_ok)]
  /\ pc' = "raised"
  /\ UNCHANGED <<policy, fraud_indicators, claim_data, results>>
  /\ UNCHANGED <<merge_vars, llm_reply, evaluations>>

NextFailure ==
  \/ BeginClaimChecked
  \/ Eligibility
  \/ DocumentValidation
  \/ CoverageVerification
  \/ CoverageAnalysis
  \/ LimitValidation
  \/ MedicalNecessity
  \/ FraudDetection
  \/ Decision
  \/ StageFails
  \/ DocumentValidationRaises
  \/ CoverageVerificationRaises
  \/ NecessityKeyError
  \/ FraudDetectionDivides
  \/ DecisionFails
  \/ HandleError

SpecFailure == InitFailure /\ [][NextFailure]_vars

\* ------------------------------------------------------------------------
\* Claims of one year against one policy
\* ------------------------------------------------------------------------
\* a policy whose annual limit two claims can reach
YearPolicy == [BasePolicy EXCEPT !.coverage_details.annual_limit = 2000]

\* claims of the same member under that policy, all treated in the current year
YearClaims ==
  { [BaseClaim EXCEPT !.items = <<Item("Eye Exam", "vision", amount)>>,
                      !.total_amount = amount] : amount \in {800, 1500} }

RECURSIVE SumFirst(_)
SumFirst(S) ==
  IF S = {} THEN 0
  ELSE LET x == CHOOSE x \in S : TRUE IN x[1] + SumFirst(S \ {x})

\* claims c LEFT JOIN claim_items ci ON c.claim_id = ci.claim_id WHERE
\* c.policy_id = policy_id: pairs of a claim index and an item index, 0 for a
\* claim without items
JoinedRows(d, policy_id) ==
  { r \in (1..Len(d.claims)) \X (0..Len(d.items)) :
      /\ d.claims[r[1]].policy_id = policy_id
      /\ IF r[2] = 0
           THEN \A j \in 1..Len(d.items) : d.items[j].claim_id # d.claims[r[1]].claim_id
           ELSE d.items[r[2]].claim_id = d.claims[r[1]].claim_id }

\* the key of GROUP BY c.policy_id, c.approved_amount, ci.category
GroupKey(d, r) ==
  <<d.claims[r[1]].approved_amount, IF r[2] = 0 THEN None ELSE d.items[r[2]].category>>

\* SUM(ci.approved_amount) of one group
CategoryTotal(d, policy_id, key) ==
  SumFirst({ <<d.items[r[2]].approved_amount, r>> :
               r \in {q \in JoinedRows(d, policy_id) : q[2] # 0 /\ GroupKey(d, q) = key} })

\* get_policy_utilization: the results the query may return.  The outer query
\* adds c.approved_amount once for each group of the subquery, and
\* json_object_agg keeps one of the category totals of the groups that share a
\* category
get_policy_utilization(d, policy_id) ==
  LET groups == {GroupKey(d, r) : r \in JoinedRows(d, policy_id)}
      totals(c) == {CategoryTotal(d, policy_id, g) : g \in {h \in groups : h[2] = c}}
      all_totals == UNION {totals(c) : c \in Categories}
  IN { Utilization(SumFirst(groups), usage) :
         usage \in { u \in [Categories -> all_totals \cup {0}] :
                       \A c \in Categories :
                          IF totals(c) = {} THEN u[c] = 0 ELSE u[c] \in totals(c) } }

InitYear ==
  /\ policy = YearPolicy
  /\ db = [ members |-> {"M1"}, utilization |-> Utilization(0, NoUsage), claims_ytd |-> 0,
            claims |-> <<>>, issues |-> <<>>, items |-> <<>>, fraud_indicators |-> <<>>,
            audit |-> <<>> ]
  /\ fraud_indicators = <<>>
  /\ pc = "serving"
  /\ claim_data = Pending
  /\ eligibility = Pending
  /\ doc_validation = Pending
  /\ coverage_verification = Pending
  /\ coverage_analysis = Pending
  /\ limit_validation = Pending
  /\ medical_necessity = Pending
  /\ fraud_detection = Pending
  /\ final_decision = Pending
  /\ file_paths = <<>>
  /\ extracted = <<>>
  /\ all_documents_text = <<>>
  /\ llm_reply = "not asked"
  /\ error = NoError
  /\ \E c1, c2 \in YearClaims :
        evaluations = [e \in Callers |->
                         StartOfCall([(IF e = 1 THEN c1 ELSE c2) EXCEPT
                                        !.claim_id = IF e = 1 THEN "CLM_1" ELSE "CLM_2"])]

\* the call of caller e up to step 5: the claim row and the claim items are
\* written, and validate_limits reads the utilization of the policy from the
\* rows that are in storage at that moment
StagesOfYear(e) ==
  /\ evaluations[e].pc = "stages"
  /\ \E a \in LlmAssessments :
        LET claim == evaluations[e].claim_data
            elig == check_basic_eligibility(policy, claim, db.members)
            docs == validate_documents(policy, claim)
            cover == verify_coverage(policy, claim)
            analysis == analyze_coverage(policy, claim.items,
                                         [k \in 1..Len(claim.items) |-> FALSE])
            stored == [db EXCEPT
                         !.claims = Append(@, [claim_id |-> claim.claim_id,
                                               policy_id |-> claim.policy_id,
                                               decision |-> "PENDING",
                                               approved_amount |-> 0]),
                         !.audit = Append(@, AuditEntry(claim.claim_id, "CREATED")),
                         !.items = @ \o [k \in 1..Len(analysis.item_analysis) |->
                                           [claim_id |-> claim.claim_id,
                                            category |-> analysis.item_analysis[k].category,
                                            approved_amount |->
                                              analysis.item_analysis[k].approved_amount]]]
        IN /\ ~NecessityAsked(claim) => a = LlmFallback
           /\ \E util \in get_policy_utilization(stored, claim.policy_id) :
                 LET limits == validate_limits(policy, claim, analysis, util)
                     necessity == review_medical_necessity(policy, claim, a)
                 IN /\ evaluations' =
                         [evaluations EXCEPT ![e] =
                            [@ EXCEPT !.pc = "fraud_detection",
                                      !.eligibility = elig,
                                      !.doc_validation = docs,
                                      !.coverage_verification = cover,
                                      !.coverage_analysis = analysis,
                                      !.limit_validation = limits,
                                      !.medical_necessity = necessity]]
                    /\ db' = [stored EXCEPT
                                !.issues = @ \o elig.issues \o docs.issues \o cover.issues
                                             \o limits.issues \o necessity.issues]
  /\ UNCHANGED <<policy, fraud_indicators, pc, claim_data, results, merge_vars,
                 llm_reply, error>>

NextYear ==
  \E e \in Callers :
     \/ StagesOfYear(e)
     \/ FraudDetectionOf(e)
     \/ DecisionOf(e)

SpecYear == InitYear /\ [][NextYear]_vars

\* ------------------------------------------------------------------------
\* Vocabulary of the properties
\* ------------------------------------------------------------------------
Done == pc = "done"

\* the coverage analysis has been computed
Analysed ==
  pc \in {"limit_validation", "medical_necessity", "fraud_detection", "decision", "done"}

\* the critical issues of the five step results in stage order: eligibility,
\* document validation, coverage verification, limit validation, necessity
StageCriticalIssues ==
  CriticalOf(eligibility.issues) \o CriticalOf(doc_validation.issues)
  \o CriticalOf(coverage_verification.issues) \o CriticalOf(limit_validation.issues)
  \o CriticalOf(medical_necessity.issues)

StageWarnings ==
  WarningsOf(eligibility.issues) \o WarningsOf(doc_validation.issues)
  \o WarningsOf(coverage_verification.issues) \o WarningsOf(limit_validation.issues)
  \o WarningsOf(medical_necessity.issues)

HardCodes ==
  {"POLICY_INACTIVE", "POLICY_EXPIRED", "WAITING_PERIOD", "MEMBER_NOT_COVERED",
   "EXCLUDED_CONDITION", "COSMETIC_PROCEDURE", "EXPERIMENTAL_TREATMENT",
   "LATE_SUBMISSION"}

LimitCodes == {"PER_CLAIM_EXCEEDED", "ANNUAL_LIMIT_EXCEEDED", "BELOW_MIN_AMOUNT"}

HardIssues == SelectSeq(StageCriticalIssues, LAMBDA i : i.code \in HardCodes)

\* the three manual-review triggers, evaluated on the stage outputs
FraudTrigger ==
  fraud_detection.fraud_score
    > Get(policy.fraud_detection.fraud_threshold, DefaultFraudThreshold)
HighValueTrigger ==
  claim_data.total_amount
    > Get(policy.fraud_detection.high_value_threshold, DefaultHighValueThreshold)
LowConfidenceTrigger ==
  _calculate_comprehensive_confidence(policy, claim_data, StageWarnings, fraud_detection)
    < policy.adjudication_rules.confidence_threshold
AnyTrigger == FraudTrigger \/ HighValueTrigger \/ LowConfidenceTrigger

Names(parts, text) == \E k \in 1..Len(parts) : parts[k].text = text

\* the claim has exactly one item, a covered consultation
SoleCoveredConsultation ==
  /\ Len(claim_data.items) = 1
  /\ claim_data.items[1].category = "consultation"
  /\ claim_data.items[1].amount > 0
  /\ policy.coverage_details.consultation_fees.covered
  /\ Len(coverage_analysis.item_analysis) = 1

ConsultSubLimit == policy.coverage_details.consultation_fees.sub_limit
ConsultCopayPct == policy.coverage_details.consultation_fees.copay_percentage

\* ------------------------------------------------------------------------
\* Properties
\* ------------------------------------------------------------------------

\* C1: whenever a stage emitted a critical issue with one of the eight hard
\* rejection codes, the decision is REJECTED with approved_amount 0 and the
\* reason is the message of the first such issue in stage order, also when
\* manual-review triggers hold at the same time.
C1_HardRejectionWins ==
  (Done /\ HardIssues # <<>>) =>
     /\ final_decision.decision = "REJECTED"
     /\ final_decision.approved_amount = 0
     /\ final_decision.reason = HardIssues[1].message

\* a late claim of an eligible member that is also a high-value claim
C1_Witness ==
  /\ Done
  /\ eligibility.issues = <<>>
  /\ HasCode(limit_validation.issues, "LATE_SUBMISSION")
  /\ HighValueTrigger
  /\ final_decision.decision = "REJECTED"
  /\ final_decision.reason.text = "Claim submitted after treatment, exceeds day limit"

\* C2: whenever validate_limits emitted a critical PER_CLAIM_EXCEEDED,
\* ANNUAL_LIMIT_EXCEEDED or BELOW_MIN_AMOUNT issue, the decision is REJECTED
\* with approved_amount 0.
C2_LimitIssueRejects ==
  (Done /\ \E k \in 1..Len(limit_validation.issues) :
              /\ limit_validation.issues[k].severity = "critical"
              /\ limit_validation.issues[k].code \in LimitCodes) =>
     /\ final_decision.decision = "REJECTED"
     /\ final_decision.approved_amount = 0

\* C3: a REJECTED decision carries approved_amount 0 and insurance_payable 0.
C3_RejectedPaysNothing ==
  (Done /\ final_decision.decision = "REJECTED") =>
     /\ final_decision.approved_amount = 0
     /\ final_decision.insurance_payable = 0

\* a rejected claim whose coverage analysis had approved something
C3_Witness ==
  /\ Done
  /\ final_decision.decision = "REJECTED"
  /\ coverage_analysis.total_approved > 0

\* C4: an APPROVED decision implies total_rejected = 0, total_copay = 0 and
\* no analysed item with sub_limit_exceeded.
C4_ApprovedIsClean ==
  (Done /\ final_decision.decision = "APPROVED") =>
     /\ coverage_analysis.total_rejected = 0
     /\ coverage_analysis.total_copay = 0
     /\ \A k \in 1..Len(coverage_analysis.item_analysis) :
           ~coverage_analysis.item_analysis[k].sub_limit_exceeded

C4_Witness ==
  /\ Done
  /\ final_decision.decision = "APPROVED"
  /\ Len(coverage_analysis.item_analysis) = MaxItems

\* C5: a PARTIAL decision implies approved_amount > 0 and a rejected amount,
\* a copay or an item over its sub-limit; a PARTIAL never comes from the cap
\* at the per-claim limit alone.
C5_PartialHasDeduction ==
  (Done /\ final_decision.decision = "PARTIAL") =>
     /\ final_decision.approved_amount > 0
     /\ \/ coverage_analysis.total_rejected > 0
        \/ coverage_analysis.total_copay > 0
        \/ \E k \in 1..Len(coverage_analysis.item_analysis) :
              coverage_analysis.item_analysis[k].sub_limit_exceeded

\* the case of C6: a sole covered consultation within the sub-limit, with a
\* non-zero copay percentage, no critical issue and no manual-review trigger
C6_Case ==
  /\ Done
  /\ SoleCoveredConsultation
  /\ (ConsultSubLimit = 0 \/ claim_data.items[1].amount <= ConsultSubLimit)
  /\ ConsultCopayPct > 0
  /\ StageCriticalIssues = <<>>
  /\ ~AnyTrigger

C6_ItemAmounts ==
  LET amount == claim_data.items[1].amount
      ia == coverage_analysis.item_analysis[1]
  IN /\ ia.copay_amount = (amount * ConsultCopayPct) \div 100
     /\ ia.approved_amount = amount - ia.copay_amount
     /\ ia.rejected_amount = 0

\* C6 as stated: such a claim is analysed as approved = amount - copay,
\* copay = amount * pct / 100, rejected = 0, and is decided APPROVED.
C6_CopayClaimApproved ==
  C6_Case => (C6_ItemAmounts /\ final_decision.decision = "APPROVED")

\* C6 amended: the item amounts are as stated; the decision is PARTIAL with
\* approved_amount = amount - copay when the copay percentage is below 100,
\* and REJECTED with approved_amount 0 when it is 100.
C6_CopayClaimPartial ==
  C6_Case =>
     /\ C6_ItemAmounts
     /\ IF ConsultCopayPct < 100
          THEN /\ final_decision.decision = "PARTIAL"
               /\ final_decision.approved_amount
                    = claim_data.items[1].amount
                      - (claim_data.items[1].amount * ConsultCopayPct) \div 100
          ELSE /\ final_decision.decision = "REJECTED"
               /\ final_decision.approved_amount = 0

\* scenario B: amount 800, sub_limit 1000, copay 10%
C6_Witness ==
  /\ C6_Case
  /\ claim_data.items[1].amount = 800
  /\ ConsultSubLimit = 1000
  /\ ConsultCopayPct = 10
  /\ final_decision.decision = "PARTIAL"
  /\ final_decision.approved_amount = 720

\* every analysed covered consultation above the sub-limit has
\* copay = sub_limit * pct / 100, approved = sub_limit - copay,
\* rejected = amount - sub_limit, status partial, sub_limit_exceeded
C7_ItemAmounts ==
  Analysed =>
    \A k \in 1..Len(coverage_analysis.item_analysis) :
      LET ia == coverage_analysis.item_analysis[k]
      IN ( /\ ia.category = "consultation"
           /\ ~AnyLowerIn(policy.exclusions, ia.description)
           /\ policy.coverage_details.consultation_fees.covered
           /\ ConsultSubLimit # 0
           /\ ia.claimed_amount > ConsultSubLimit ) =>
         /\ ia.copay_amount = (ConsultSubLimit * ConsultCopayPct) \div 100
         /\ ia.approved_amount = ConsultSubLimit - ia.copay_amount
         /\ ia.rejected_amount = ia.claimed_amount - ConsultSubLimit
         /\ ia.status = "partial"
         /\ ia.sub_limit_exceeded

\* the claim-level case of C7: the sole item is a covered consultation above
\* the sub-limit, no critical issue, no manual-review trigger
C7_Case ==
  /\ Done
  /\ SoleCoveredConsultation
  /\ ConsultSubLimit # 0
  /\ claim_data.items[1].amount > ConsultSubLimit
  /\ StageCriticalIssues = <<>>
  /\ ~AnyTrigger

\* C7 as stated: the item amounts above, and such a claim is decided PARTIAL
\* with approved_amount = sub_limit - copay.
C7_OverLimitPartial ==
  /\ C7_ItemAmounts
  /\ C7_Case =>
       /\ final_decision.decision = "PARTIAL"
       /\ final_decision.approved_amount
            = ConsultSubLimit - (ConsultSubLimit * ConsultCopayPct) \div 100

\* C7 amended: the item amounts above; the claim is decided PARTIAL with
\* approved_amount = sub_limit - copay when the copay percentage is below
\* 100, and REJECTED with approved_amount 0 when it is 100.
C7_OverLimitPartialBelowFullCopay ==
  /\ C7_ItemAmounts
  /\ C7_Case =>
       IF ConsultCopayPct < 100
         THEN /\ final_decision.decision = "PARTIAL"
              /\ final_decision.approved_amount
                   = ConsultSubLimit - (ConsultSubLimit * ConsultCopayPct) \div 100
         ELSE /\ final_decision.decision = "REJECTED"
              /\ final_decision.approved_amount = 0

\* scenario C: amount 1500, sub_limit 1000, copay 10%
C7_Witness ==
  /\ C7_Case
  /\ claim_data.items[1].amount = 1500
  /\ ConsultSubLimit = 1000
  /\ ConsultCopayPct = 10
  /\ coverage_analysis.item_analysis[1].rejected_amount = 500
  /\ final_decision.decision = "PARTIAL"
  /\ final_decision.approved_amount = 900

\* C8: every analysed item has claimed = approved + rejected + copay, and so
\* has every entry of the decision record's item_breakdown.
C8_ItemAmountsAddUp ==
  /\ Analysed =>
       \A k \in 1..Len(coverage_analysis.item_analysis) :
          LET ia == coverage_analysis.item_analysis[k]
          IN ia.claimed_amount = ia.approved_amount + ia.rejected_amount + ia.copay_amount
  /\ Done =>
       \A k \in 1..Len(final_decision.item_breakdown) :
          LET ib == final_decision.item_breakdown[k]
          IN ib.claimed_amount = ib.approved_amount + ib.rejected_amount + ib.copay_amount

\* a rejected claim with an item the analysis had approved with a copay
C8_Witness ==
  /\ Done
  /\ final_decision.decision = "REJECTED"
  /\ \E k \in 1..Len(coverage_analysis.item_analysis) :
        /\ coverage_analysis.item_analysis[k].copay_amount > 0
        /\ coverage_analysis.item_analysis[k].approved_amount > 0
        /\ final_decision.item_breakdown[k].rejected_amount
             = coverage_analysis.item_analysis[k].claimed_amount

\* C9: without a hard-rejection issue, any of the three triggers makes the
\* decision MANUAL_REVIEW, also when essential documents or fields are
\* missing or nothing was approved, and the reason names every trigger.
C9_TriggerMeansReview ==
  (Done /\ HardIssues = <<>> /\ AnyTrigger) =>
     /\ final_decision.decision = "MANUAL_REVIEW"
     /\ FraudTrigger => Names(final_decision.reason_parts, "High fraud risk detected")
     /\ HighValueTrigger => Names(final_decision.reason_parts, "High-value claim")
     /\ LowConfidenceTrigger => Names(final_decision.reason_parts, "Low confidence score")

\* a claim with a required document missing and nothing approved that is
\* escalated because two triggers hold
C9_Witness ==
  /\ Done
  /\ HardIssues = <<>>
  /\ ~doc_validation.is_valid
  /\ coverage_analysis.total_approved = 0
  /\ FraudTrigger
  /\ LowConfidenceTrigger
  /\ final_decision.decision = "MANUAL_REVIEW"
  /\ Len(final_decision.reason_parts) >= 2

\* C10: whenever the detector reports requires_manual_review and no
\* hard-rejection issue is present, the decision is MANUAL_REVIEW.
C10_FlaggedMeansReview ==
  (Done /\ fraud_detection.requires_manual_review
        /\ \A k \in 1..Len(StageCriticalIssues) :
              StageCriticalIssues[k].code \notin (HardCodes \cup LimitCodes)) =>
     final_decision.decision = "MANUAL_REVIEW"

\* ------------------------------------------------------------------------
\* Properties of the document merge
\* ------------------------------------------------------------------------
Merged == pc = "merged"

DocumentsOfCall == {file_paths[k] : k \in 1..Len(file_paths)}

\* every order in which the documents of this call could have arrived
OtherArrivalOrders ==
  { order \in [1..Len(file_paths) -> DocumentsOfCall] :
      \A i, j \in 1..Len(file_paths) : i # j => order[i] # order[j] }

Plain(items) ==
  { [description |-> items[k].description, amount |-> items[k].amount] :
      k \in 1..Len(items) }

\* what C11 compares of two merged records: scalars, billable items, reference
\* lists and total, the lists without their order
MergedView(r) ==
  [ patient_name |-> r.patient_name,
    diagnosis |-> IF Present(r.diagnosis) THEN r.diagnosis ELSE None,
    doctor_name |-> IF Present(r.doctor_name) THEN r.doctor_name ELSE None,
    hospital_name |-> IF Present(r.hospital_name) THEN r.hospital_name ELSE None,
    items |-> Plain(r.items),
    prescription_items |-> Plain(r.prescription_items),
    lab_results_items |-> Plain(r.lab_results_items),
    total_amount |-> r.total_amount ]

\* the document an item of the merged record was extracted from
OriginOf(item) ==
  CHOOSE t \in DocumentsOfCall :
    \E k \in 1..Len(extracted[t].items) :
       extracted[t].items[k].description = item.description

BillTypes == {"medical_bill", "pharmacy_bill"}

\* the bill documents of the call whose extract carries a total
BillsWithTotal == {t \in DocumentsOfCall \cap BillTypes : extracted[t].total_amount # 0}

\* C11: the merged record of a call is the same for every arrival order of
\* its documents: same scalar fields, billable items, reference lists, total.
C11_MergeOrderIndependent ==
  Merged =>
    \A order \in OtherArrivalOrders :
       MergedView(MergeInOrder(Pending, order, extracted)) = MergedView(claim_data)

\* C12: the merged total_amount is the sum of the totals of all bill documents
\* that carry one, and the sum of the billable item amounts when none does.
C12_TotalIsSumOfBillTotals ==
  Merged =>
    claim_data.total_amount =
      IF BillsWithTotal # {}
        THEN (IF "medical_bill" \in BillsWithTotal
                THEN extracted["medical_bill"].total_amount ELSE 0)
           + (IF "pharmacy_bill" \in BillsWithTotal
                THEN extracted["pharmacy_bill"].total_amount ELSE 0)
        ELSE AmountsTotal(claim_data.items)

\* C13: every billable item of the merged record comes from a medical_bill or
\* pharmacy_bill document and has a positive amount.
C13_BillableItemsFromBills ==
  Merged =>
    \A k \in 1..Len(claim_data.items) :
       /\ OriginOf(claim_data.items[k]) \in BillTypes
       /\ claim_data.items[k].amount > 0

\* ------------------------------------------------------------------------
\* Properties of the stages
\* ------------------------------------------------------------------------
EligibilityChecked == eligibility # Pending

Codes(issues) == [k \in 1..Len(issues) |-> issues[k].code]

\* the codes of the eligibility checks that fail for the claim being processed
FailingEligibilityChecks ==
  LET treatment_date == TreatmentOrClaimDate(claim_data)
  IN    (IF treatment_date < policy.effective_date THEN <<"POLICY_INACTIVE">> ELSE <<>>)
     \o (IF policy.policy_end_date # NoDate /\ treatment_date > policy.policy_end_date
           THEN <<"POLICY_EXPIRED">> ELSE <<>>)
     \o (IF treatment_date - policy.effective_date < policy.waiting_periods.initial_waiting
           THEN <<"WAITING_PERIOD">> ELSE <<>>)
     \o (IF Truthy(claim_data.member_id) /\ claim_data.member_id \notin db.members
           THEN <<"MEMBER_NOT_COVERED">> ELSE <<>>)

\* treatment 9 days after the effective date under a 30-day waiting period
NineDaysIntoWaiting ==
  /\ TreatmentOrClaimDate(claim_data) = policy.effective_date + 9
  /\ policy.waiting_periods.initial_waiting = 30

\* C19: check_basic_eligibility returns one critical issue for each of the four
\* checks that fails, all of them and in order, and is_eligible exactly when
\* there is none; 9 days into a 30-day waiting period gives WAITING_PERIOD and
\* a REJECTED decision with approved_amount 0.
C19_AllEligibilityChecksRun ==
  /\ EligibilityChecked =>
       /\ Codes(eligibility.issues) = FailingEligibilityChecks
       /\ \A k \in 1..Len(eligibility.issues) : eligibility.issues[k].severity = "critical"
       /\ eligibility.is_eligible <=> (eligibility.issues = <<>>)
  /\ (Done /\ NineDaysIntoWaiting) =>
       /\ HasCode(eligibility.issues, "WAITING_PERIOD")
       /\ final_decision.decision = "REJECTED"
       /\ final_decision.approved_amount = 0

C19_Witness ==
  /\ Done
  /\ NineDaysIntoWaiting
  /\ Codes(eligibility.issues) = <<"WAITING_PERIOD", "MEMBER_NOT_COVERED">>
  /\ final_decision.decision = "REJECTED"

CoverageVerified == coverage_verification # Pending

IssuesAbout(issues, description, code) ==
  SelectSeq(issues, LAMBDA i : i.code = code /\ i.item = description)

ExclusionMatches(item) ==
  \E k \in 1..Len(policy.exclusions) :
     \/ LowerContains[item.description][policy.exclusions[k]]
     \/ LowerContains[StrOrEmpty(claim_data.diagnosis)][policy.exclusions[k]]

\* C20: per item, verify_coverage emits EXCLUDED_CONDITION when an exclusion
\* term occurs in the description or the diagnosis, SERVICE_NOT_COVERED only
\* when none does and the category is not covered, never both; coverage_valid
\* is false exactly when a critical issue was emitted.
C20_ExcludedOrNotCovered ==
  CoverageVerified =>
    /\ \A k \in 1..Len(claim_data.items) :
         LET item == claim_data.items[k]
             excluded == IssuesAbout(coverage_verification.issues, item.description,
                                     "EXCLUDED_CONDITION")
             not_covered == IssuesAbout(coverage_verification.issues, item.description,
                                        "SERVICE_NOT_COVERED")
         IN /\ (excluded # <<>>) <=> ExclusionMatches(item)
            /\ (not_covered # <<>>) <=>
                 (~ExclusionMatches(item) /\ ~_is_category_covered(policy, item.category))
            /\ ~(excluded # <<>> /\ not_covered # <<>>)
    /\ coverage_verification.coverage_valid
         <=> (CriticalOf(coverage_verification.issues) = <<>>)

\* ------------------------------------------------------------------------
\* Properties of calls that share a ClaimProcessor
\* ------------------------------------------------------------------------
\* C15: in every interleaving of two calls on one ClaimProcessor, the
\* fraud_indicators of a call's decision record are the indicators that
\* detect_fraud_indicators returned to that same call.
C15_OwnIndicatorsInDecision ==
  \A e \in DOMAIN evaluations :
     evaluations[e].pc = "done" =>
       evaluations[e].final_decision.fraud_indicators
         = evaluations[e].fraud_detection.indicators

\* ------------------------------------------------------------------------
\* Scores of the fraud stage and of the decision
\* ------------------------------------------------------------------------
Thousandths == 0..1000

FraudStageRaised == error.raised /\ error.stage = "fraud_detection" /\ error.detail = "ZeroDivisionError"

HighValueScores(fd) == {fd.indicators[k].score : k \in {j \in 1..Len(fd.indicators) : fd.indicators[j].type = "HIGH_VALUE"}}

\* C14: for every claim and every policy, a high_value_threshold of 0 and any
\* number of missing critical fields included, the fraud stage returns a
\* fraud_score in [0, 1] to which the HIGH_VALUE indicator contributes at most
\* 0.3, and the decision's confidence_score is in [0, 1]
C14_ScoresInUnitInterval ==
  /\ ~FraudStageRaised
  /\ fraud_detection # Pending =>
       /\ fraud_detection.fraud_score \in Thousandths
       /\ \A score \in HighValueScores(fraud_detection) : score \in 0..300
  /\ final_decision # Pending => final_decision.confidence_score \in Thousandths

\* ------------------------------------------------------------------------
\* The failure of a medical necessity review
\* ------------------------------------------------------------------------
ReviewFailed == llm_reply \in {"failed", "no is_necessary"}

ReviewWarnings(result) == SelectSeq(result.issues, LAMBDA i : i.severity = "warning" /\ i.code # "NOT_MEDICALLY_NECESSARY")

\* C17: when the reply of the medical necessity review cannot be used
\* (unparseable, or without the is_necessary field) the stage does not raise:
\* it treats the treatment as necessary, adds no critical
\* NOT_MEDICALLY_NECESSARY issue and records a warning issue for the review
C17_FailedReviewIsWarning ==
  ReviewFailed =>
    /\ ~(error.raised /\ error.stage = "medical_necessity" /\ error.detail = "KeyError")
    /\ medical_necessity # Pending =>
         /\ \A k \in 1..Len(medical_necessity.issues) :
              ~(medical_necessity.issues[k].code = "NOT_MEDICALLY_NECESSARY"
                /\ medical_necessity.issues[k].severity = "critical")
         /\ ReviewWarnings(medical_necessity) # <<>>

\* ------------------------------------------------------------------------
\* Claim ids and the error path of process_claim_complete
\* ------------------------------------------------------------------------
RowsOf(claim_id) == SelectSeq(db.claims, LAMBDA row : row.claim_id = claim_id)

AuditOf(claim_id) == SelectSeq(db.audit, LAMBDA entry : entry.claim_id = claim_id)

ErrorAuditOf(claim_id) == SelectSeq(db.audit, LAMBDA entry : entry.claim_id = claim_id /\ entry.action = "ERROR")

ErrorAudits == SelectSeq(db.audit, LAMBDA entry : entry.action = "ERROR")

\* the claim row of this call was written before the failure
RowWritten == error.stage \notin {"extraction", "create_claim"}

StagesAfter(stage) ==
  CASE stage = "eligibility" -> <<eligibility, doc_validation, coverage_verification, coverage_analysis, limit_validation, medical_necessity, fraud_detection, final_decision>>
    [] stage = "document_validation" -> <<doc_validation, coverage_verification, coverage_analysis, limit_validation, medical_necessity, fraud_detection, final_decision>>
    [] stage = "coverage_verification" -> <<coverage_verification, coverage_analysis, limit_validation, medical_necessity, fraud_detection, final_decision>>
    [] stage = "coverage_analysis" -> <<coverage_analysis, limit_validation, medical_necessity, fraud_detection, final_decision>>
    [] stage = "limit_validation" -> <<limit_validation, medical_necessity, fraud_detection, final_decision>>
    [] stage = "medical_necessity" -> <<medical_necessity, fraud_detection, final_decision>>
    [] stage = "fraud_detection" -> <<fraud_detection, final_decision>>
    [] stage = "decision" -> <<final_decision>>
    [] OTHER -> <<eligibility, doc_validation, coverage_verification, coverage_analysis, limit_validation, medical_necessity, fraud_detection, final_decision>>

\* C16: when a stage or a storage call has failed and the handler's own
\* storage calls succeed, the error is raised to the caller, no later stage
\* has run, the rows already written are still in storage, and the audit log
\* holds exactly one ERROR entry for the claim if its row had been written and
\* no ERROR entry at all if the failure came before the row existed
C16_OneErrorAuditIffRowWritten ==
  pc = "raised" /\ ~error.audit_failed =>
    /\ error.raised
    /\ \A k \in 1..Len(StagesAfter(error.stage)) : StagesAfter(error.stage)[k] = Pending
    /\ Len(RowsOf(StoredClaimId)) >= 1
    /\ IF RowWritten
         THEN /\ Len(RowsOf(claim_data.claim_id)) >= 1
              /\ Len(ErrorAuditOf(claim_data.claim_id)) = 1
              /\ Len(ErrorAudits) = 1
         ELSE ErrorAudits = <<>>

\* C18: the claim of the call gets a generated id whatever the extraction
\* returned, and never the id of a stored claim: the stored claim keeps its
\* single row and its audit trail as they were, and a call that cannot get a
\* free id ends with an error and writes nothing under the stored id
C18_StoredClaimUntouched ==
  /\ Len(RowsOf(StoredClaimId)) = 1
  /\ AuditOf(StoredClaimId) = <<AuditEntry(StoredClaimId, "CREATED"), AuditEntry(StoredClaimId, "APPROVED")>>
  /\ pc \in StageNames \cup {"decision", "done"} => claim_data.claim_id \in GeneratedIds \ {StoredClaimId}

\* ------------------------------------------------------------------------
\* Pre-authorization
\* ------------------------------------------------------------------------
\* the category of the item is configured pre_authorization_required; the
\* policy carries that flag for diagnostic tests only
CategoryRequiresPreAuth(pol, category) ==
  category = "diagnostic" /\ pol.coverage_details.diagnostic_tests.pre_authorization_required

PreAuthIssuesFor(item) == SelectSeq(coverage_verification.issues, LAMBDA i : i.code = "PRE_AUTH_MISSING" /\ i.message.item = item.description)

\* C21: PRE_AUTH_MISSING is emitted for an item exactly when its description
\* matches a pre-authorization keyword, its own category requires
\* pre-authorization and the claim carries no pre-authorization number
C21_PreAuthOnlyForOwnCategory ==
  CoverageVerified =>
    \A k \in 1..Len(claim_data.items) :
      LET item == claim_data.items[k]
      IN PreAuthIssuesFor(item) # <<>>
           <=> /\ AnyRawIn(pre_auth_keywords, item.description)
               /\ CategoryRequiresPreAuth(policy, item.category)
               /\ ~Truthy(claim_data.pre_authorization_number)

\* ------------------------------------------------------------------------
\* Sub-limits of the categories
\* ------------------------------------------------------------------------
LimitsValidated == limit_validation # Pending

\* the year-to-date usage of the category that validate_limits reads
UsageOf(category) ==
  IF Truthy(claim_data.policy_id) THEN CategoryUsage(db.utilization.category_usage, category) ELSE 0

\* the sum of the claimed amounts of the analysed items of the category
ClaimedIn(category) ==
  LET ia == coverage_analysis.item_analysis
  IN SumSeq([k \in 1..Len(ia) |-> IF ia[k].category = category THEN ia[k].claimed_amount ELSE 0])

SubLimitWarned(category) ==
  \E k \in 1..Len(limit_validation.issues) :
     /\ limit_validation.issues[k].code = "SUB_LIMIT_EXCEEDED"
     /\ limit_validation.issues[k].message.item = category

\* C22: validate_limits emits a SUB_LIMIT_EXCEEDED warning for a category
\* exactly when the category's year-to-date usage plus the sum of the claim's
\* claimed amounts in the category exceeds the configured sub-limit, and the
\* warnings never make limits_valid false
C22_SubLimitWarningPerCategory ==
  LimitsValidated =>
    /\ \A category \in Categories :
         CategorySubLimit(policy, category) # 0 =>
           (SubLimitWarned(category)
              <=> UsageOf(category) + ClaimedIn(category) > CategorySubLimit(policy, category))
    /\ limit_validation.limits_valid <=> CriticalOf(limit_validation.issues) = <<>>

\* ------------------------------------------------------------------------
\* Document validation of any merged record
\* ------------------------------------------------------------------------
DocumentsValidated == doc_validation # Pending

\* the essential fields the claim record lacks
AbsentEssentialFields ==
  {f \in {"patient_name"} : ~Truthy(claim_data.patient_name)}
  \cup {f \in {"treatment_date"} : claim_data.treatment_date = NoDate}
  \cup {f \in {"total_amount"} : claim_data.total_amount = 0}
  \cup {f \in {"items"} : claim_data.items = <<>>}

\* the required document types that were not submitted
TypesNotSubmitted ==
  LET required == policy.claim_requirements.required_document_types
      submitted == claim_data.document_types_submitted
  IN {k \in 1..Len(required) :
        \A j \in 1..Len(submitted) : NormalizedType[submitted[j]] # NormalizedType[required[k]]}

CountOf(issues, code) == Len(SelectSeq(issues, LAMBDA i : i.code = code))

\* C23: for every merged claim record, one with a null or absent patient_name
\* included, validate_documents returns without raising, with one critical
\* MISSING_REQUIRED_FIELD per absent essential field and one critical
\* MISSING_DOCUMENT_TYPE per required document type not submitted, and
\* is_valid is true exactly when it emitted no critical issue
C23_ValidateDocumentsTotal ==
  /\ ~(error.raised /\ error.stage = "document_validation" /\ error.detail = "AttributeError")
  /\ DocumentsValidated =>
       /\ CountOf(doc_validation.issues, "MISSING_REQUIRED_FIELD") = Cardinality(AbsentEssentialFields)
       /\ CountOf(doc_validation.issues, "MISSING_DOCUMENT_TYPE") = Cardinality(TypesNotSubmitted)
       /\ doc_validation.is_valid <=> CriticalOf(doc_validation.issues) = <<>>

\* ------------------------------------------------------------------------
\* The policy during a run
\* ------------------------------------------------------------------------
\* C24: during a run of process_claim_complete no step replaces or alters the
\* policy the processor loaded, and the policy_id of the decision output is
\* the id of that policy
C24_PolicyReadOnly ==
  [][/\ policy' = policy
     /\ final_decision' # Pending => final_decision'.policy_id = policy.policy_id]_vars

\* ------------------------------------------------------------------------
\* Totals of the coverage analysis
\* ------------------------------------------------------------------------
SumOf(items, field) == SumSeq([k \in 1..Len(items) |-> items[k][field]])

\* C25: the totals analyze_coverage returns are the sums of the approved,
\* rejected and copay amounts over item_analysis, and in every decision the
\* three amounts of the items add up to the three totals
C25_TotalsAreItemSums ==
  /\ Analysed =>
       /\ coverage_analysis.total_approved = SumOf(coverage_analysis.item_analysis, "approved_amount")
       /\ coverage_analysis.total_rejected = SumOf(coverage_analysis.item_analysis, "rejected_amount")
       /\ coverage_analysis.total_copay = SumOf(coverage_analysis.item_analysis, "copay_amount")
  /\ Done =>
         SumOf(final_decision.item_breakdown, "approved_amount")
           + SumOf(final_decision.item_breakdown, "rejected_amount")
           + SumOf(final_decision.item_breakdown, "copay_amount")
       = coverage_analysis.total_approved + coverage_analysis.total_rejected
           + coverage_analysis.total_copay

\* a decision on two analysed items with an approved, a rejected and a copay part
C25_Witness ==
  /\ Done
  /\ Len(coverage_analysis.item_analysis) >= 2
  /\ coverage_analysis.total_approved > 0
  /\ coverage_analysis.total_rejected > 0
  /\ coverage_analysis.total_copay > 0

\* ------------------------------------------------------------------------
\* The order of the stages and the stored decision
\* ------------------------------------------------------------------------
\* the positions of process_claim_complete in a run without error
StageOrder ==
  <<"idle", "eligibility", "document_validation", "coverage_verification",
    "coverage_analysis", "limit_validation", "medical_necessity",
    "fraud_detection", "decision", "done">>

PositionOf(stage) == CHOOSE k \in 1..Len(StageOrder) : StageOrder[k] = stage

\* what the stage at each position leaves behind: the merged claim record,
\* the seven step results and the decision record
StageOutputs ==
  <<claim_data, eligibility, doc_validation, coverage_verification, coverage_analysis,
    limit_validation, medical_necessity, fraud_detection, final_decision>>

DecisionValues == {"APPROVED", "PARTIAL", "REJECTED", "MANUAL_REVIEW"}

\* one step of a run: the next stage in the order runs, its output appears and
\* the outputs of the earlier stages stay as they were; the claim has one row,
\* PENDING until the decision stage and then the decision made from all the
\* earlier outputs; the step that stores the decision writes no claim row,
\* item, issue or fraud indicator
OneStageInOrder ==
  /\ PositionOf(pc') = PositionOf(pc) + 1
  /\ \A k \in 1..Len(StageOutputs) :
        /\ (StageOutputs'[k] # Pending) <=> (k < PositionOf(pc'))
        /\ StageOutputs[k] # Pending => StageOutputs'[k] = StageOutputs[k]
  /\ LET before == SelectSeq(db.claims, LAMBDA row : row.claim_id = claim_data'.claim_id)
         after == SelectSeq(db'.claims, LAMBDA row : row.claim_id = claim_data'.claim_id)
     IN /\ Len(after) = 1
        /\ pc' # "done" => after[1].decision = "PENDING"
        /\ pc' = "done" =>
              /\ before[1].decision = "PENDING"
              /\ after[1].decision = final_decision'.decision
              /\ after[1].decision \in DecisionValues
              /\ \A k \in 1..(Len(StageOutputs) - 1) : StageOutputs[k] # Pending
              /\ Len(db'.claims) = Len(db.claims)
              /\ db'.items = db.items
              /\ db'.issues = db.issues
              /\ db'.fraud_indicators = db.fraud_indicators

\* C26: in a run that finishes without error the stages run once each in the
\* order merge, eligibility, document validation, coverage verification,
\* coverage analysis, limit validation, medical necessity, fraud detection,
\* decision; the stored decision leaves PENDING once, for one of the four
\* decisions, when all earlier outputs exist, and nothing of the claim but
\* the decision is written from then on
C26_StagesOnceInOrder == [][OneStageInOrder]_vars

\* a finished run that stored items, issues and a decision
C26_Witness ==
  /\ Done
  /\ RowsOf(claim_data.claim_id)[1].decision \in DecisionValues
  /\ db.items # <<>>
  /\ db.issues # <<>>

\* ------------------------------------------------------------------------
\* The pass/fail map of the reasoning object
\* ------------------------------------------------------------------------
Status(valid) == IF valid THEN "passed" ELSE "failed"

\* the map in which each step is failed exactly when its own result is not valid
StepsByResult ==
  [ eligibility |-> Status(eligibility.is_eligible),
    documents |-> Status(doc_validation.is_valid),
    coverage |-> Status(coverage_verification.coverage_valid),
    limits |-> Status(limit_validation.limits_valid),
    medical_necessity |-> Status(medical_necessity.is_necessary) ]

\* C27: the pass/fail map of every decision record marks a validation step
\* failed exactly when the result of that step reported a critical issue
\* (is_eligible, is_valid, coverage_valid, limits_valid or is_necessary is
\* false) and passed otherwise
C27_StepsFollowResults ==
  Done => final_decision.reasoning.validation_steps = StepsByResult

\* ------------------------------------------------------------------------
\* Approval and critical issues
\* ------------------------------------------------------------------------
\* C28: a claim is decided APPROVED only when no stage emitted a critical
\* issue of any code, and the decision record of an APPROVED claim lists none
C28_ApprovedWithoutCriticalIssue ==
  (Done /\ final_decision.decision = "APPROVED") =>
     /\ StageCriticalIssues = <<>>
     /\ final_decision.critical_issues = <<>>

\* ------------------------------------------------------------------------
\* The amounts of the decision record
\* ------------------------------------------------------------------------
\* C30: in every decision record approved_amount equals insurance_payable,
\* reasoning.coverage_summary.final_approved and the sum of
\* final_approved_amount over item_breakdown
C30_ApprovedAmountsAgree ==
  Done =>
    /\ final_decision.approved_amount = final_decision.insurance_payable
    /\ final_decision.approved_amount = final_decision.reasoning.coverage_summary.final_approved
    /\ final_decision.approved_amount = SumOf(final_decision.item_breakdown, "final_approved_amount")

\* ------------------------------------------------------------------------
\* The annual limit over the claims of a year
\* ------------------------------------------------------------------------
\* the callers whose claim was decided with a payment
PaidCallers ==
  { e \in DOMAIN evaluations :
      /\ evaluations[e].pc = "done"
      /\ evaluations[e].final_decision.decision \in {"APPROVED", "PARTIAL"} }

TotalPaid == SumFirst({ <<evaluations[e].final_decision.approved_amount, e>> : e \in PaidCallers })

\* C29: over any sequence or interleaving of evaluations against one policy in
\* one year, the approved amounts of the claims decided APPROVED or PARTIAL
\* add up to no more than the annual limit of the policy
C29_PaidWithinAnnualLimit == TotalPaid <= policy.coverage_details.annual_limit

====
